---- MODULE Spec2Model ----
(***************************************************************************)
(* Model of the request/response pipeline of the docusign client library.  *)
(*                                                                         *)
(* The repository holds two generations of the call executor:              *)
(*   - Call.Do            (src/recipients.go), dispatching via ctxhttp.Do  *)
(*   - Service.do / doPdf (src/docusign.go), dispatching on a goroutine    *)
(*     raced against ctx.Done() in a select                                *)
(* and two generations of multiBody, the multipart composer (one in each   *)
(* file).  One run of the model is one invocation of one executor: the     *)
(* variable api says which.                                                *)
(*                                                                         *)
(* io.Pipe, mime/multipart, net/http and ctxhttp are library code: they    *)
(* are modelled by their documented behaviour at the places the source     *)
(* calls them.                                                             *)
(***************************************************************************)
EXTENDS Integers, Sequences, FiniteSets, TLC

\* Bounds of the model.
MaxFiles == 2       \* at most this many UploadFiles in one call
MaxChunks == 2      \* a file's Data yields at most this many chunks before EOF

VARIABLES
    \* ---- the call's inputs
    api,        \* "Do" (Call.Do), "do" (Service.do) or "doPdf" (Service.doPdf)
    method,     \* the HTTP method / url string handed to http.NewRequest
    payload,    \* "nil", "ok" (marshals) or "bad" (json cannot marshal it)
    result,     \* the result slot: "nil", "typed", "raw" (**http.Response), "writer"
    client,     \* "default" (http.DefaultClient, Transport unset) or "transport"
    files,      \* sequence of UploadFile records
    server,     \* the (stubbed) vendor service: "any" or "upload"
    \* ---- the executor (the caller's goroutine)
    epc,        \* position of the executor
    req,        \* the request under construction
    ret,        \* the error value the executor returned
    slot,       \* what the caller's result slot holds
    \* ---- the multiBody writer goroutine
    wpc,        \* position of the writer
    widx,       \* index of the file the main loop is at
    fcnt,       \* docusign.go: files closed so far by the main loop
    werr,       \* the goroutine's err variable
    fpos,       \* fpos[k]: chunks read so far from files[k].Data
    feof,       \* feof[k]: files[k].Data has returned EOF
    closeCnt,   \* closeCnt[k]: number of Close calls on files[k].Data
    \* ---- the pipe between writer and request body reader
    pending,    \* the data of the pw.Write in progress, <<>> if none
    prErr,      \* error stored by closing the read end, "none" if open
    pwErr,      \* error stored by closing the write end, "none" if open
    rcvd,       \* everything the reader has read from the pipe
    robs,       \* what the reader saw last: "reading", "EOF", "ErrClosedPipe"
    bodyClosed, \* the transport has closed the request body
    \* ---- the transport
    tpc,        \* "idle", "active" (RoundTrip running), "done"
    tout,       \* the outcome of RoundTrip: a response or a transport error
    ndispatch,  \* number of requests handed to the transport
    cancelReq,  \* CancelRequest was invoked for the request
    resRead,    \* the library has read from the response body
    resClosed,  \* number of Close calls on the response body
    \* ---- the context and the dispatch goroutine of Service.do / doPdf
    ctxDone,    \* the context is done
    ctxAt,      \* the transport's state (tpc) when the context became done
    gpc,        \* position of the dispatch goroutine
    gerr,       \* the goroutine's err, sent on resCh
    \* ---- the library's functions, run on their own (SpecLib)
    fn,         \* the function being run, "none" during a call
    arg,        \* its receiver and arguments
    val,        \* the value it works on: the value before the first
                \* invocation, then what the last invocation left or returned
    calls       \* number of invocations so far

callVars == <<api, method, payload, result, client, files, server>>
execVars == <<epc, req, ret, slot>>
writerVars == <<wpc, widx, fcnt, werr, fpos, feof, closeCnt>>
pipeVars == <<pending, prErr, pwErr, rcvd, robs, bodyClosed>>
transVars == <<tpc, tout, ndispatch, cancelReq, resRead, resClosed>>
taskVars == <<ctxDone, ctxAt, gpc, gerr>>
libVars == <<fn, arg, val, calls>>
vars == <<libVars, callVars, execVars, writerVars, pipeVars, transVars, taskVars>>

NFiles == Len(files)

-----------------------------------------------------------------------------
(* Error values.  Every error is a record of one shape so that values can   *)
(* be compared: kind says which error it is, the other fields are those of  *)
(* ResponseError.                                                           *)

MkErr(k) == [kind |-> k, Status |-> 0, Err |-> "", Description |-> ""]
NoError == MkErr("nil")

\* type ResponseError struct { Err; Description; Status }
ResponseError(status, code, desc) ==
    [kind |-> "ResponseError", Status |-> status, Err |-> code, Description |-> desc]

-----------------------------------------------------------------------------
(* Response bodies.  A body is empty, text that is not JSON, or a JSON      *)
(* object given as the sequence of its members.                             *)

EmptyBody == [kind |-> "empty", members |-> <<>>]
TextBody == [kind |-> "text", members |-> <<>>]
ObjectBody(m) == [kind |-> "object", members |-> m]

Bodies ==
    { EmptyBody, TextBody,
      ObjectBody(<< <<"errorCode", "INVALID_REQUEST">>, <<"message", "bad field">> >>),
      ObjectBody(<< <<"folderId", "1">>, <<"name", "Draft">> >>) }

\* number of bytes of a body: only "zero or not" matters to the code
BodyLen(b) == IF b.kind = "empty" THEN 0 ELSE 1 + Len(b.members)

StatusCodes == {200, 201, 202, 400}

\* The responses a server can send: Content-Length either declares the
\* body's length or is absent (ContentLength = -1, e.g. chunked encoding).
Responses ==
    UNION { { [kind |-> "response", StatusCode |-> s, ContentLength |-> cl, Body |-> b] :
                s \in StatusCodes, cl \in {-1, BodyLen(b)} } : b \in Bodies }

\* the answers of the server to an upload
UploadResponses ==
    { r \in Responses : /\ r.ContentLength # -1
                        /\ \/ r.StatusCode = 200 /\ r.Body.kind = "object"
                              /\ r.Body.members[1][1] = "folderId"
                           \/ r.StatusCode = 400 /\ r.Body.kind = "empty" }

\* the responses a server can answer with
Answers(srv) == IF srv = "upload" THEN UploadResponses ELSE Responses

NoOutcome == [kind |-> "none"]
TransportError == [kind |-> "error"]

\* the error message of json.Decoder.Decode failing on a body
DecodeErrorMessage(b) ==
    IF b.kind = "empty" THEN "EOF" ELSE "invalid character"

\* a decoder that knows only the vendor's spelling of the two fields
UnmarshalMember_VendorOnly(r, m) ==
    IF m[1] = "errorCode"
    THEN [r EXCEPT !.Err = m[2]]
    ELSE IF m[1] = "message"
         THEN [r EXCEPT !.Description = m[2]]
         ELSE r
\* for k, v := range t { ... } of ResponseError.UnmarshalJSON, one member
UnmarshalMember(r, m) ==
    IF m[1] = "errorCode" \/ m[1] = "error"
    THEN [r EXCEPT !.Err = m[2]]
    ELSE IF m[1] = "message" \/ m[1] = "error_description"
         THEN [r EXCEPT !.Description = m[2]]
         ELSE r

RECURSIVE UnmarshalMembers(_, _)
UnmarshalMembers(r, ms) ==
    IF ms = <<>> THEN r
    ELSE UnmarshalMembers(UnmarshalMember(r, Head(ms)), Tail(ms))

\* json.NewDecoder(res.Body).Decode(re): <<re after the call, error message>>,
\* the message "" standing for a nil error.
DecodeResponseError(re, b) ==
    IF b.kind = "object"
    THEN <<UnmarshalMembers(re, b.members), "">>
    ELSE <<re, DecodeErrorMessage(b)>>

-----------------------------------------------------------------------------
(* The multipart stream, as the sequence of writes made to the pipe.        *)

\* the part header of the JSON metadata part
JSONPartHeader == <<"part", "application/json", "form-data">>
\* json.NewEncoder(ptw).Encode(payload)
JSONBody == <<"json", "payload">>
\* a composer that writes the standard form-data disposition instead
ContentDisposition_FormData(f) == <<"form-data; name=", f.FileName>>
\* fmt.Sprintf("file; filename=\"%s\";documentid=%s", f.FileName, f.Id)
ContentDisposition(f) == <<"file; filename=", f.FileName, ";documentid=", f.Id>>
\* the part header of a file part
FilePartHeader(f) == <<"part", f.ContentType, ContentDisposition(f)>>
\* the j-th chunk that files[k].Data yields
FileChunk(k, j) == <<"data", k, j>>
\* mpw.Boundary(): the boundary multipart.NewWriter chose for the stream
Boundary == "mpw.Boundary()"
\* the closing boundary written by mpw.Close()
FinalBoundary == <<"final-boundary", Boundary>>

\* the UploadFile values of the model: the k-th file of a call
UploadFile(k, closer) ==
    [ContentType |-> "text/plain", FileName |-> <<"fn", k>>, Id |-> k, closer |-> closer]

-----------------------------------------------------------------------------
(* io.Pipe: a write blocks until the reader has consumed it or either end   *)
(* is closed; closing stores the first error of each end.                   *)

PipeDone == prErr # "none" \/ pwErr # "none"

\* pipe.readCloseError
ReadCloseError ==
    IF prErr = "none" /\ pwErr # "none" THEN pwErr ELSE "ErrClosedPipe"

\* onceError.Store: only the first error is kept
StoreOnce(cur, e) == IF cur = "none" THEN e ELSE cur

\* a pipe with an internal buffer: the write stores its data and returns at
\* once, whether or not a reader has taken it
WriteCall_Buffered(tok, pcWait, pcFail) ==
    IF PipeDone
    THEN /\ wpc' = pcFail
         /\ pending' = pending
    ELSE /\ wpc' = pcWait
         /\ pending' = <<>>
\* pw.Write(tok) is entered at a write site: it fails at once on a closed
\* pipe and otherwise offers tok and blocks.
WriteCall(tok, pcWait, pcFail) ==
    IF PipeDone
    THEN /\ wpc' = pcFail
         /\ pending' = pending
    ELSE /\ wpc' = pcWait
         /\ pending' = tok

\* the blocked pw.Write can return: the reader took the data, or the pipe
\* was closed under it
WriteReturns == pending = <<>> \/ PipeDone
WriteOK == pending = <<>>

WriteReturn(pcOk, pcFail) ==
    /\ WriteReturns
    /\ wpc' = IF WriteOK THEN pcOk ELSE pcFail
    /\ pending' = <<>>

-----------------------------------------------------------------------------
(* multiBody of src/recipients.go: the writer goroutine, one action per     *)
(* step between two blocking points.  It runs for api = "Do".               *)

\* a deferred function that closes no file
CloseAllFiles_Skip(cnt) == cnt
\* what the deferred loop "for _, f := range files" leaves in closeCnt
CloseAllFiles(cnt) ==
    [k \in 1..NFiles |-> IF files[k].closer THEN cnt[k] + 1 ELSE cnt[k]]

\* if payload != nil { ptw, err = mpw.CreatePart(mh) ...
multiBody_PayloadPart ==
    /\ api = "Do" /\ wpc = "payload"
    /\ IF payload = "nil"
       THEN wpc' = "file" /\ UNCHANGED <<pending, werr>>
       ELSE /\ WriteCall(JSONPartHeader, "payload_w", "defer")
            /\ werr' = IF PipeDone THEN "write" ELSE werr
    /\ UNCHANGED <<widx, fcnt, fpos, feof, closeCnt, prErr, pwErr, rcvd, robs, bodyClosed>>
    /\ UNCHANGED <<libVars, callVars, execVars, transVars, taskVars>>

\* ... CreatePart returns: err == nil leads to Encode, otherwise return
multiBody_PayloadPartDone ==
    /\ api = "Do" /\ wpc = "payload_w"
    /\ WriteReturn("encode", "defer")
    /\ werr' = IF WriteOK THEN "nil" ELSE "write"
    /\ UNCHANGED <<widx, fcnt, fpos, feof, closeCnt, prErr, pwErr, rcvd, robs, bodyClosed>>
    /\ UNCHANGED <<libVars, callVars, execVars, transVars, taskVars>>

\* err = json.NewEncoder(ptw).Encode(payload)
multiBody_Encode ==
    /\ api = "Do" /\ wpc = "encode"
    /\ IF payload = "bad"
       THEN wpc' = "defer" /\ werr' = "encode" /\ UNCHANGED pending
       ELSE /\ WriteCall(JSONBody, "encode_w", "defer")
            /\ werr' = IF PipeDone THEN "write" ELSE werr
    /\ UNCHANGED <<widx, fcnt, fpos, feof, closeCnt, prErr, pwErr, rcvd, robs, bodyClosed>>
    /\ UNCHANGED <<libVars, callVars, execVars, transVars, taskVars>>

\* Encode returns; if err != nil { return }
multiBody_EncodeDone ==
    /\ api = "Do" /\ wpc = "encode_w"
    /\ WriteReturn("file", "defer")
    /\ werr' = IF WriteOK THEN "nil" ELSE "write"
    /\ UNCHANGED <<widx, fcnt, fpos, feof, closeCnt, prErr, pwErr, rcvd, robs, bodyClosed>>
    /\ UNCHANGED <<libVars, callVars, execVars, transVars, taskVars>>

\* for _, f := range files { ptw, err = mpw.CreatePart(mh) ...
\* A failed CreatePart skips the copy and the loop goes on to the next file.
multiBody_FilePart ==
    /\ api = "Do" /\ wpc = "file"
    /\ IF widx > NFiles
       THEN wpc' = "defer" /\ UNCHANGED <<pending, werr, widx>>
       ELSE /\ WriteCall(FilePartHeader(files[widx]), "file_w", "file")
            /\ werr' = IF PipeDone THEN "write" ELSE werr
            /\ widx' = IF PipeDone THEN widx + 1 ELSE widx
    /\ UNCHANGED <<fcnt, fpos, feof, closeCnt, prErr, pwErr, rcvd, robs, bodyClosed>>
    /\ UNCHANGED <<libVars, callVars, execVars, transVars, taskVars>>

\* ... CreatePart returns: err == nil leads to io.Copy
multiBody_FilePartDone ==
    /\ api = "Do" /\ wpc = "file_w"
    /\ WriteReturn("copy", "file")
    /\ werr' = IF WriteOK THEN "nil" ELSE "write"
    /\ widx' = IF WriteOK THEN widx ELSE widx + 1
    /\ UNCHANGED <<fcnt, fpos, feof, closeCnt, prErr, pwErr, rcvd, robs, bodyClosed>>
    /\ UNCHANGED <<libVars, callVars, execVars, transVars, taskVars>>

\* io.Copy(ptw, f.Data), one Read: a chunk (then written to the part), EOF
\* (io.Copy returns nil, next file) or a read error (break)
multiBody_Copy ==
    /\ api = "Do" /\ wpc = "copy"
    /\ \/ /\ fpos[widx] < MaxChunks
          /\ fpos' = [fpos EXCEPT ![widx] = @ + 1]
          /\ WriteCall(FileChunk(widx, fpos[widx] + 1), "copy_w", "defer")
          /\ werr' = IF PipeDone THEN "write" ELSE werr
          /\ UNCHANGED <<widx, feof>>
       \/ /\ feof' = [feof EXCEPT ![widx] = TRUE]
          /\ werr' = "nil"
          /\ widx' = widx + 1
          /\ wpc' = "file"
          /\ UNCHANGED <<fpos, pending>>
       \/ /\ werr' = "read"
          /\ wpc' = "defer"
          /\ UNCHANGED <<fpos, feof, widx, pending>>
    /\ UNCHANGED <<fcnt, closeCnt, prErr, pwErr, rcvd, robs, bodyClosed>>
    /\ UNCHANGED <<libVars, callVars, execVars, transVars, taskVars>>

\* the part write of io.Copy returns; a write error ends io.Copy (break)
multiBody_CopyDone ==
    /\ api = "Do" /\ wpc = "copy_w"
    /\ WriteReturn("copy", "defer")
    /\ werr' = IF WriteOK THEN werr ELSE "write"
    /\ UNCHANGED <<widx, fcnt, fpos, feof, closeCnt, prErr, pwErr, rcvd, robs, bodyClosed>>
    /\ UNCHANGED <<libVars, callVars, execVars, transVars, taskVars>>

\* defer func(): pr.CloseWithError on error, then close every input file
multiBody_Defer ==
    /\ api = "Do" /\ wpc = "defer"
    /\ prErr' = IF werr # "nil" THEN StoreOnce(prErr, "batch: multiPart Error") ELSE prErr
    /\ closeCnt' = CloseAllFiles(closeCnt)
    /\ wpc' = "mpwclose"
    /\ UNCHANGED <<widx, fcnt, werr, fpos, feof, pending, pwErr, rcvd, robs, bodyClosed>>
    /\ UNCHANGED <<libVars, callVars, execVars, transVars, taskVars>>

\* mpw.Close() writes the closing boundary; its error is dropped
multiBody_MpwClose ==
    /\ api = "Do" /\ wpc = "mpwclose"
    /\ WriteCall(FinalBoundary, "mpwclose_w", "pwclose")
    /\ UNCHANGED <<widx, fcnt, werr, fpos, feof, closeCnt, prErr, pwErr, rcvd, robs, bodyClosed>>
    /\ UNCHANGED <<libVars, callVars, execVars, transVars, taskVars>>

multiBody_MpwCloseDone ==
    /\ api = "Do" /\ wpc = "mpwclose_w"
    /\ WriteReturn("pwclose", "pwclose")
    /\ UNCHANGED <<widx, fcnt, werr, fpos, feof, closeCnt, prErr, pwErr, rcvd, robs, bodyClosed>>
    /\ UNCHANGED <<libVars, callVars, execVars, transVars, taskVars>>

\* pw.Close()
multiBody_PwClose ==
    /\ api = "Do" /\ wpc = "pwclose"
    /\ pwErr' = StoreOnce(pwErr, "EOF")
    /\ wpc' = "done"
    /\ UNCHANGED <<widx, fcnt, werr, fpos, feof, closeCnt, pending, prErr, rcvd, robs, bodyClosed>>
    /\ UNCHANGED <<libVars, callVars, execVars, transVars, taskVars>>

-----------------------------------------------------------------------------
(* The HTTP transport: it reads the request body, closes it, and delivers   *)
(* a response or an error.                                                  *)

\* the transport reads the data of the write in progress
transport_ReadBody ==
    /\ tpc = "active" /\ req.body = "pipe"
    /\ ~bodyClosed /\ robs = "reading"
    /\ ~PipeDone /\ pending # <<>>
    /\ rcvd' = Append(rcvd, pending)
    /\ pending' = <<>>
    /\ UNCHANGED <<prErr, pwErr, robs, bodyClosed>>
    /\ UNCHANGED <<libVars, callVars, execVars, writerVars, transVars, taskVars>>

\* a read on the closed pipe returns its close error: EOF or ErrClosedPipe
transport_BodyEnd ==
    /\ tpc = "active" /\ req.body = "pipe"
    /\ ~bodyClosed /\ robs = "reading"
    /\ PipeDone
    /\ robs' = ReadCloseError
    /\ UNCHANGED <<pending, prErr, pwErr, rcvd, bodyClosed>>
    /\ UNCHANGED <<libVars, callVars, execVars, writerVars, transVars, taskVars>>

\* the transport closes the request body (pr.Close()), during the round
\* trip or after it
transport_CloseBody ==
    /\ tpc \in {"active", "done"} /\ req.body = "pipe"
    /\ ~bodyClosed
    /\ bodyClosed' = TRUE
    /\ prErr' = StoreOnce(prErr, "ErrClosedPipe")
    /\ UNCHANGED <<pending, pwErr, rcvd, robs>>
    /\ UNCHANGED <<libVars, callVars, execVars, writerVars, transVars, taskVars>>

\* the server's response arrives
transport_Respond ==
    /\ tpc = "active"
    /\ robs \in {"reading", "EOF"}
    /\ ~cancelReq
    /\ \E r \in Answers(server) : tout' = r
    /\ tpc' = "done"
    /\ UNCHANGED <<ndispatch, cancelReq, resRead, resClosed>>
    /\ UNCHANGED <<libVars, callVars, execVars, writerVars, pipeVars, taskVars>>

\* the round trip fails
transport_Fail ==
    /\ tpc = "active"
    /\ tout' = TransportError
    /\ tpc' = "done"
    /\ UNCHANGED <<ndispatch, cancelReq, resRead, resClosed>>
    /\ UNCHANGED <<libVars, callVars, execVars, writerVars, pipeVars, taskVars>>

\* the caller's context is canceled or times out
ctx_Done ==
    /\ ~ctxDone
    /\ epc # "returned"
    /\ ctxDone' = TRUE
    /\ ctxAt' = tpc
    /\ UNCHANGED <<gpc, gerr>>
    /\ UNCHANGED <<libVars, callVars, execVars, writerVars, pipeVars, transVars>>

-----------------------------------------------------------------------------
(* Response classification.                                                 *)

\* a status check that accepts every 2xx code
IsSuccessStatus_Any2xx(code) == code >= 200 /\ code < 300
\* res.StatusCode != 200 && res.StatusCode != 201
IsSuccessStatus(code) == code = 200 \/ code = 201

\* if res.ContentLength > 0 { decode the body }
DecodesErrorBody(res) == res.ContentLength > 0

\* checkResponseStatus(res): the error it returns
checkResponseStatus(res) ==
    IF IsSuccessStatus(res.StatusCode)
    THEN NoError
    ELSE LET re == ResponseError(res.StatusCode, "", "")
             d == DecodeResponseError(re, res.Body)
         IN  IF DecodesErrorBody(res)
             THEN IF d[2] # "" THEN [d[1] EXCEPT !.Description = d[2]] ELSE d[1]
             ELSE re

\* json.NewDecoder(body).Decode(c.Result) / json.Unmarshal(b, returnValue):
\* <<the slot after the call, the error>>
DecodeResult(b) ==
    IF b.kind = "object" THEN <<"decoded", NoError>> ELSE <<"unwritten", MkErr("decode")>>

-----------------------------------------------------------------------------
(* Call.Do of src/recipients.go                                             *)

NoRequest ==
    [built |-> FALSE, body |-> "none", contentType |-> "", boundary |-> "", accept |-> ""]

Return(e) == epc' = "returned" /\ ret' = e

\* an executor that looks at the payload first and sends a call with a
\* payload as JSON even when it has files
Do_Body_PayloadFirst ==
    /\ api = "Do" /\ epc = "start"
    /\ IF payload = "ok"
       THEN /\ req' = [req EXCEPT !.body = "json", !.contentType = "application/json"]
            /\ epc' = "newreq" /\ UNCHANGED <<ret, wpc>>
       ELSE IF payload = "bad"
            THEN Return(MkErr("marshal")) /\ UNCHANGED <<req, wpc>>
            ELSE IF NFiles > 0
                 THEN /\ req' = [req EXCEPT !.body = "pipe", !.contentType = "multipart/form-data",
                                            !.boundary = Boundary]
                      /\ wpc' = "payload"
                      /\ epc' = "newreq" /\ UNCHANGED ret
                 ELSE epc' = "newreq" /\ UNCHANGED <<req, ret, wpc>>
    /\ UNCHANGED <<slot, widx, fcnt, werr, fpos, feof, closeCnt>>
    /\ UNCHANGED <<libVars, callVars, pipeVars, transVars, taskVars>>
\* if len(c.Files) > 0 { multiBody } else if c.Payload != nil { json.Marshal }
Do_Body ==
    /\ api = "Do" /\ epc = "start"
    /\ IF NFiles > 0
       THEN /\ req' = [req EXCEPT !.body = "pipe", !.contentType = "multipart/form-data",
                                  !.boundary = Boundary]
            /\ wpc' = "payload"
            /\ epc' = "newreq" /\ UNCHANGED ret
       ELSE /\ wpc' = wpc
            /\ IF payload = "nil"
               THEN epc' = "newreq" /\ UNCHANGED <<req, ret>>
               ELSE IF payload = "bad"
                    THEN Return(MkErr("marshal")) /\ UNCHANGED req
                    ELSE /\ req' = [req EXCEPT !.body = "json", !.contentType = "application/json"]
                         /\ epc' = "newreq" /\ UNCHANGED ret
    /\ UNCHANGED <<slot, widx, fcnt, werr, fpos, feof, closeCnt>>
    /\ UNCHANGED <<libVars, callVars, pipeVars, transVars, taskVars>>

\* accept is set when Result is non-nil and not a **http.Response
DoAccept(res) == IF res # "nil" /\ res # "raw" THEN "application/json" ELSE ""

\* http.NewRequest(c.Method, "", body), Authorize and the headers
Do_NewRequest ==
    /\ api = "Do" /\ epc = "newreq"
    /\ IF method = "invalid"
       THEN Return(MkErr("request")) /\ UNCHANGED req
       ELSE /\ req' = [req EXCEPT !.built = TRUE, !.accept = DoAccept(result)]
            /\ epc' = "dispatch" /\ UNCHANGED ret
    /\ UNCHANGED slot
    /\ UNCHANGED <<libVars, callVars, writerVars, pipeVars, transVars, taskVars>>

\* res, err := ctxhttp.Do(ctx, contextClient(ctx), req): the call
Do_ctxhttpDo ==
    /\ api = "Do" /\ epc = "dispatch"
    /\ tpc' = "active"
    /\ ndispatch' = ndispatch + 1
    /\ epc' = "wait"
    /\ UNCHANGED <<req, ret, slot, tout, cancelReq, resRead, resClosed>>
    /\ UNCHANGED <<libVars, callVars, writerVars, pipeVars, taskVars>>

\* an executor that dispatches the request again after a transport error
Do_TransportError_Retry ==
    /\ api = "Do" /\ epc = "wait"
    /\ tpc = "done" /\ tout.kind = "error"
    /\ epc' = "dispatch" /\ tpc' = "idle" /\ tout' = NoOutcome
    /\ UNCHANGED <<req, ret, slot, ndispatch, cancelReq, resRead, resClosed>>
    /\ UNCHANGED <<libVars, callVars, writerVars, pipeVars, taskVars>>
\* ctxhttp.Do returns an error: the context's if it is done
Do_TransportError ==
    /\ api = "Do" /\ epc = "wait"
    /\ tpc = "done" /\ tout.kind = "error"
    /\ Return(IF ctxDone THEN MkErr("ctx") ELSE MkErr("transport"))
    /\ UNCHANGED <<req, slot>>
    /\ UNCHANGED <<libVars, callVars, writerVars, pipeVars, transVars, taskVars>>

\* a Call.Do that returns the ResponseError without closing the body
DoBodyCloses_LeakOnError(e, res) ==
    IF e # NoError THEN 0
    ELSE IF res = "raw" THEN 0 ELSE 1
\* how often Call.Do closes the response body: res.Body.Close() when
\* checkResponseStatus fails, nothing for a raw result, the deferred
\* res.Body.Close() otherwise
DoBodyCloses(e, res) ==
    IF e # NoError THEN 1
    ELSE IF res = "raw" THEN 0 ELSE 1

\* ctxhttp.Do returns a response: checkResponseStatus, raw hand-over or decode
Do_Response ==
    /\ api = "Do" /\ epc = "wait"
    /\ tpc = "done" /\ tout.kind = "response"
    /\ LET e == checkResponseStatus(tout)
           d == DecodeResult(tout.Body)
       IN  /\ resClosed' = resClosed + DoBodyCloses(e, result)
           /\ IF e # NoError
              THEN /\ resRead' = DecodesErrorBody(tout)
                   /\ Return(e) /\ UNCHANGED slot
              ELSE IF result = "raw"
                   THEN /\ slot' = "response"
                        /\ Return(NoError)
                        /\ UNCHANGED resRead
                   ELSE IF result = "nil"
                        THEN Return(NoError) /\ UNCHANGED <<slot, resRead>>
                        ELSE /\ resRead' = TRUE
                             /\ slot' = d[1]
                             /\ Return(d[2])
    /\ UNCHANGED <<req, tpc, tout, ndispatch, cancelReq>>
    /\ UNCHANGED <<libVars, callVars, writerVars, pipeVars, taskVars>>

-----------------------------------------------------------------------------
(* multiBody of src/docusign.go: the writer goroutine of Service.do.  It    *)
(* closes each file right after copying it and counts them in fcnt; the     *)
(* deferred function closes the files from fcnt on.                         *)

\* if closer, ok := f.Data.(io.Closer); ok { closer.Close() }
CloseFile(cnt, k) ==
    IF files[k].closer THEN [cnt EXCEPT ![k] = @ + 1] ELSE cnt

\* a deferred loop that forgets fcnt and closes every file again
CloseRemainingFiles_FromStart(cnt, n) ==
    [k \in 1..NFiles |-> IF files[k].closer THEN cnt[k] + 1 ELSE cnt[k]]
\* for fcnt < len(files) { close files[fcnt]; fcnt++ }
CloseRemainingFiles(cnt, n) ==
    [k \in 1..NFiles |-> IF k > n /\ files[k].closer THEN cnt[k] + 1 ELSE cnt[k]]

\* if payload != nil { if ptw, err = mpw.CreatePart(mh); err != nil { return }
legacyMultiBody_PayloadPart ==
    /\ api = "do" /\ wpc = "payload"
    /\ IF payload = "nil"
       THEN wpc' = "file" /\ UNCHANGED <<pending, werr>>
       ELSE /\ WriteCall(JSONPartHeader, "payload_w", "defer")
            /\ werr' = IF PipeDone THEN "write" ELSE werr
    /\ UNCHANGED <<widx, fcnt, fpos, feof, closeCnt, prErr, pwErr, rcvd, robs, bodyClosed>>
    /\ UNCHANGED <<libVars, callVars, execVars, transVars, taskVars>>

legacyMultiBody_PayloadPartDone ==
    /\ api = "do" /\ wpc = "payload_w"
    /\ WriteReturn("encode", "defer")
    /\ werr' = IF WriteOK THEN "nil" ELSE "write"
    /\ UNCHANGED <<widx, fcnt, fpos, feof, closeCnt, prErr, pwErr, rcvd, robs, bodyClosed>>
    /\ UNCHANGED <<libVars, callVars, execVars, transVars, taskVars>>

\* if err = json.NewEncoder(ptw).Encode(payload); err != nil { return }
legacyMultiBody_Encode ==
    /\ api = "do" /\ wpc = "encode"
    /\ IF payload = "bad"
       THEN wpc' = "defer" /\ werr' = "encode" /\ UNCHANGED pending
       ELSE /\ WriteCall(JSONBody, "encode_w", "defer")
            /\ werr' = IF PipeDone THEN "write" ELSE werr
    /\ UNCHANGED <<widx, fcnt, fpos, feof, closeCnt, prErr, pwErr, rcvd, robs, bodyClosed>>
    /\ UNCHANGED <<libVars, callVars, execVars, transVars, taskVars>>

legacyMultiBody_EncodeDone ==
    /\ api = "do" /\ wpc = "encode_w"
    /\ WriteReturn("file", "defer")
    /\ werr' = IF WriteOK THEN "nil" ELSE "write"
    /\ UNCHANGED <<widx, fcnt, fpos, feof, closeCnt, prErr, pwErr, rcvd, robs, bodyClosed>>
    /\ UNCHANGED <<libVars, callVars, execVars, transVars, taskVars>>

\* for _, f := range files { if ptw, err = mpw.CreatePart(mh); err == nil {..}
\* if err != nil { return } }
legacyMultiBody_FilePart ==
    /\ api = "do" /\ wpc = "file"
    /\ IF widx > NFiles
       THEN wpc' = "defer" /\ UNCHANGED <<pending, werr>>
       ELSE /\ WriteCall(FilePartHeader(files[widx]), "file_w", "defer")
            /\ werr' = IF PipeDone THEN "write" ELSE werr
    /\ UNCHANGED <<widx, fcnt, fpos, feof, closeCnt, prErr, pwErr, rcvd, robs, bodyClosed>>
    /\ UNCHANGED <<libVars, callVars, execVars, transVars, taskVars>>

legacyMultiBody_FilePartDone ==
    /\ api = "do" /\ wpc = "file_w"
    /\ WriteReturn("copy", "defer")
    /\ werr' = IF WriteOK THEN "nil" ELSE "write"
    /\ UNCHANGED <<widx, fcnt, fpos, feof, closeCnt, prErr, pwErr, rcvd, robs, bodyClosed>>
    /\ UNCHANGED <<libVars, callVars, execVars, transVars, taskVars>>

\* _, err = io.Copy(ptw, f.Data), one Read; when io.Copy returns (EOF or a
\* read error) the file is closed and counted, and an error returns
legacyMultiBody_Copy ==
    /\ api = "do" /\ wpc = "copy"
    /\ \/ /\ fpos[widx] < MaxChunks
          /\ fpos' = [fpos EXCEPT ![widx] = @ + 1]
          /\ WriteCall(FileChunk(widx, fpos[widx] + 1), "copy_w", "defer")
          /\ werr' = IF PipeDone THEN "write" ELSE werr
          /\ closeCnt' = IF PipeDone THEN CloseFile(closeCnt, widx) ELSE closeCnt
          /\ fcnt' = IF PipeDone THEN fcnt + 1 ELSE fcnt
          /\ UNCHANGED <<widx, feof>>
       \/ /\ feof' = [feof EXCEPT ![widx] = TRUE]
          /\ werr' = "nil"
          /\ closeCnt' = CloseFile(closeCnt, widx)
          /\ fcnt' = fcnt + 1
          /\ widx' = widx + 1
          /\ wpc' = "file"
          /\ UNCHANGED <<fpos, pending>>
       \/ /\ werr' = "read"
          /\ closeCnt' = CloseFile(closeCnt, widx)
          /\ fcnt' = fcnt + 1
          /\ wpc' = "defer"
          /\ UNCHANGED <<fpos, feof, widx, pending>>
    /\ UNCHANGED <<prErr, pwErr, rcvd, robs, bodyClosed>>
    /\ UNCHANGED <<libVars, callVars, execVars, transVars, taskVars>>

\* the part write of io.Copy returns; on a write error io.Copy returns it,
\* the file is closed and counted, and the goroutine returns
legacyMultiBody_CopyDone ==
    /\ api = "do" /\ wpc = "copy_w"
    /\ WriteReturn("copy", "defer")
    /\ werr' = IF WriteOK THEN werr ELSE "write"
    /\ closeCnt' = IF WriteOK THEN closeCnt ELSE CloseFile(closeCnt, widx)
    /\ fcnt' = IF WriteOK THEN fcnt ELSE fcnt + 1
    /\ UNCHANGED <<widx, fpos, feof, prErr, pwErr, rcvd, robs, bodyClosed>>
    /\ UNCHANGED <<libVars, callVars, execVars, transVars, taskVars>>

\* defer func(): pr.CloseWithError on error, close the files from fcnt on
legacyMultiBody_Defer ==
    /\ api = "do" /\ wpc = "defer"
    /\ prErr' = IF werr # "nil" THEN StoreOnce(prErr, "batch: multiPart Error") ELSE prErr
    /\ closeCnt' = CloseRemainingFiles(closeCnt, fcnt)
    /\ fcnt' = IF fcnt < NFiles THEN NFiles ELSE fcnt
    /\ wpc' = "mpwclose"
    /\ UNCHANGED <<widx, werr, fpos, feof, pending, pwErr, rcvd, robs, bodyClosed>>
    /\ UNCHANGED <<libVars, callVars, execVars, transVars, taskVars>>

\* mpw.Close()
legacyMultiBody_MpwClose ==
    /\ api = "do" /\ wpc = "mpwclose"
    /\ WriteCall(FinalBoundary, "mpwclose_w", "pwclose")
    /\ UNCHANGED <<widx, fcnt, werr, fpos, feof, closeCnt, prErr, pwErr, rcvd, robs, bodyClosed>>
    /\ UNCHANGED <<libVars, callVars, execVars, transVars, taskVars>>

legacyMultiBody_MpwCloseDone ==
    /\ api = "do" /\ wpc = "mpwclose_w"
    /\ WriteReturn("pwclose", "pwclose")
    /\ UNCHANGED <<widx, fcnt, werr, fpos, feof, closeCnt, prErr, pwErr, rcvd, robs, bodyClosed>>
    /\ UNCHANGED <<libVars, callVars, execVars, transVars, taskVars>>

\* pw.Close()
legacyMultiBody_PwClose ==
    /\ api = "do" /\ wpc = "pwclose"
    /\ pwErr' = StoreOnce(pwErr, "EOF")
    /\ wpc' = "done"
    /\ UNCHANGED <<widx, fcnt, werr, fpos, feof, closeCnt, pending, prErr, rcvd, robs, bodyClosed>>
    /\ UNCHANGED <<libVars, callVars, execVars, transVars, taskVars>>

-----------------------------------------------------------------------------
\* if t, ok := s.client.Transport.(canceler); ok: http.DefaultClient has a
\* nil Transport field, which is no canceler
IsCanceler(c) == c = "transport"

-----------------------------------------------------------------------------
(* Service.do of src/docusign.go                                          *)

\* if len(files) > 0 { multiBody } else if payload != nil { json.Marshal };
\* if err != nil { return err }
do_Body ==
    /\ api = "do" /\ epc = "start"
    /\ IF NFiles > 0
       THEN /\ req' = [req EXCEPT !.body = "pipe", !.contentType = "multipart/form-data",
                                  !.boundary = Boundary]
            /\ wpc' = "payload"
            /\ epc' = "newreq" /\ UNCHANGED ret
       ELSE /\ wpc' = wpc
            /\ IF payload = "nil"
               THEN epc' = "newreq" /\ UNCHANGED <<req, ret>>
               ELSE IF payload = "bad"
                    THEN Return(MkErr("marshal")) /\ UNCHANGED req
                    ELSE /\ req' = [req EXCEPT !.body = "json", !.contentType = "application/json"]
                         /\ epc' = "newreq" /\ UNCHANGED ret
    /\ UNCHANGED <<slot, widx, fcnt, werr, fpos, feof, closeCnt>>
    /\ UNCHANGED <<libVars, callVars, pipeVars, transVars, taskVars>>

\* if len(files) == 0 { req.Header.Add("Accept", "application/json") }
doAccept == IF NFiles = 0 THEN "application/json" ELSE ""

\* s.newRequest(method, urlStr, body), the headers and Authorize
do_NewRequest ==
    /\ api = "do" /\ epc = "newreq"
    /\ IF method = "invalid"
       THEN Return(MkErr("request")) /\ UNCHANGED req
       ELSE /\ req' = [req EXCEPT !.built = TRUE, !.accept = doAccept]
            /\ epc' = "spawn" /\ UNCHANGED ret
    /\ UNCHANGED slot
    /\ UNCHANGED <<libVars, callVars, writerVars, pipeVars, transVars, taskVars>>

\* resCh := make(chan error); go func() { ... }()
do_Spawn ==
    /\ api = "do" /\ epc = "spawn"
    /\ gpc' = "start"
    /\ epc' = "select"
    /\ UNCHANGED <<req, ret, slot, ctxDone, ctxAt, gerr>>
    /\ UNCHANGED <<libVars, callVars, writerVars, pipeVars, transVars>>

\* the goroutine: res, err := s.client.Do(req), the call
do_TaskClientDo ==
    /\ api = "do" /\ gpc = "start"
    /\ tpc' = "active"
    /\ ndispatch' = ndispatch + 1
    /\ gpc' = "wait"
    /\ UNCHANGED <<tout, cancelReq, resRead, resClosed, ctxDone, ctxAt, gerr>>
    /\ UNCHANGED <<libVars, callVars, execVars, writerVars, pipeVars>>

\* the goroutine: client.Do returned; checkResponseStatus, which closes the
\* body when it decodes it, and on success the decode into returnValue
do_TaskResult ==
    /\ api = "do" /\ gpc = "wait"
    /\ tpc = "done"
    /\ IF tout.kind = "error"
       THEN gerr' = MkErr("transport") /\ UNCHANGED <<slot, resRead, resClosed>>
       ELSE LET e == checkResponseStatus(tout)
                d == DecodeResult(tout.Body)
            IN  IF e # NoError
                THEN /\ gerr' = e
                     /\ resRead' = DecodesErrorBody(tout)
                     /\ resClosed' = IF DecodesErrorBody(tout) THEN resClosed + 1 ELSE resClosed
                     /\ UNCHANGED slot
                ELSE /\ resRead' = TRUE
                     /\ resClosed' = resClosed + 1
                     /\ slot' = d[1]
                     /\ gerr' = d[2]
    /\ gpc' = "send"
    /\ UNCHANGED <<epc, req, ret, tpc, tout, ndispatch, cancelReq, ctxDone, ctxAt>>
    /\ UNCHANGED <<libVars, callVars, writerVars, pipeVars>>

\* select { case <-s.ctx.Done(): err = s.ctx.Err(); CancelRequest if the
\* client's Transport is a canceler
do_SelectDone ==
    /\ api = "do" /\ epc = "select"
    /\ ctxDone
    /\ cancelReq' = (cancelReq \/ IsCanceler(client))
    /\ Return(MkErr("ctx"))
    /\ UNCHANGED <<req, slot, tpc, tout, ndispatch, resRead, resClosed>>
    /\ UNCHANGED <<libVars, callVars, writerVars, pipeVars, taskVars>>

\* select { case err = <-resCh: the rendezvous with the goroutine's send
do_SelectResult ==
    /\ api = "do" /\ epc = "select"
    /\ gpc = "send"
    /\ Return(gerr)
    /\ gpc' = "close"
    /\ UNCHANGED <<req, slot, ctxDone, ctxAt, gerr>>
    /\ UNCHANGED <<libVars, callVars, writerVars, pipeVars, transVars>>

\* the goroutine: close(resCh)
do_TaskClose ==
    /\ api = "do" /\ gpc = "close"
    /\ gpc' = "done"
    /\ UNCHANGED <<ctxDone, ctxAt, gerr>>
    /\ UNCHANGED <<libVars, callVars, execVars, writerVars, pipeVars, transVars>>

-----------------------------------------------------------------------------
(* Service.doPdf of src/docusign.go                                          *)

\* if payload != nil { json.Marshal; if err != nil { return err } }
doPdf_Body ==
    /\ api = "doPdf" /\ epc = "start"
    /\ IF payload = "nil"
       THEN epc' = "newreq" /\ UNCHANGED <<req, ret>>
       ELSE IF payload = "bad"
            THEN Return(MkErr("marshal")) /\ UNCHANGED req
            ELSE /\ req' = [req EXCEPT !.body = "json"]
                 /\ epc' = "newreq" /\ UNCHANGED ret
    /\ UNCHANGED slot
    /\ UNCHANGED <<libVars, callVars, writerVars, pipeVars, transVars, taskVars>>

\* s.newRequest(method, urlStr, body), the headers and Authorize
doPdf_NewRequest ==
    /\ api = "doPdf" /\ epc = "newreq"
    /\ IF method = "invalid"
       THEN Return(MkErr("request")) /\ UNCHANGED req
       ELSE /\ req' = [req EXCEPT !.built = TRUE, !.accept = "application/pdf",
                                  !.contentType = IF payload # "nil" THEN "application/json" ELSE ""]
            /\ epc' = "spawn" /\ UNCHANGED ret
    /\ UNCHANGED slot
    /\ UNCHANGED <<libVars, callVars, writerVars, pipeVars, transVars, taskVars>>

\* resCh := make(chan error); go func() { ... }()
doPdf_Spawn ==
    /\ api = "doPdf" /\ epc = "spawn"
    /\ gpc' = "start"
    /\ epc' = "select"
    /\ UNCHANGED <<req, ret, slot, ctxDone, ctxAt, gerr>>
    /\ UNCHANGED <<libVars, callVars, writerVars, pipeVars, transVars>>

\* the goroutine: res, err := s.client.Do(req), the call
doPdf_TaskClientDo ==
    /\ api = "doPdf" /\ gpc = "start"
    /\ tpc' = "active"
    /\ ndispatch' = ndispatch + 1
    /\ gpc' = "wait"
    /\ UNCHANGED <<tout, cancelReq, resRead, resClosed, ctxDone, ctxAt, gerr>>
    /\ UNCHANGED <<libVars, callVars, execVars, writerVars, pipeVars>>

\* _, err = io.Copy(outputWriter, res.Body): what the output writer holds
CopyToWriter(b) == IF BodyLen(b) > 0 THEN "written" ELSE "unwritten"

\* the goroutine: client.Do returned; checkResponseStatus, which closes the
\* body when it decodes it, and on success the copy to outputWriter
doPdf_TaskResult ==
    /\ api = "doPdf" /\ gpc = "wait"
    /\ tpc = "done"
    /\ IF tout.kind = "error"
       THEN gerr' = MkErr("transport") /\ UNCHANGED <<slot, resRead, resClosed>>
       ELSE LET e == checkResponseStatus(tout)
            IN  IF e # NoError
                THEN /\ gerr' = e
                     /\ resRead' = DecodesErrorBody(tout)
                     /\ resClosed' = IF DecodesErrorBody(tout) THEN resClosed + 1 ELSE resClosed
                     /\ UNCHANGED slot
                ELSE /\ resRead' = TRUE
                     /\ resClosed' = resClosed + 1
                     /\ slot' = CopyToWriter(tout.Body)
                     /\ gerr' = NoError
    /\ gpc' = "send"
    /\ UNCHANGED <<epc, req, ret, tpc, tout, ndispatch, cancelReq, ctxDone, ctxAt>>
    /\ UNCHANGED <<libVars, callVars, writerVars, pipeVars>>

\* select { case <-s.ctx.Done(): err = s.ctx.Err(); CancelRequest if the
\* client's Transport is a canceler
doPdf_SelectDone ==
    /\ api = "doPdf" /\ epc = "select"
    /\ ctxDone
    /\ cancelReq' = (cancelReq \/ IsCanceler(client))
    /\ Return(MkErr("ctx"))
    /\ UNCHANGED <<req, slot, tpc, tout, ndispatch, resRead, resClosed>>
    /\ UNCHANGED <<libVars, callVars, writerVars, pipeVars, taskVars>>

\* select { case err = <-resCh: the rendezvous with the goroutine's send
doPdf_SelectResult ==
    /\ api = "doPdf" /\ epc = "select"
    /\ gpc = "send"
    /\ Return(gerr)
    /\ gpc' = "done"
    /\ UNCHANGED <<req, slot, ctxDone, ctxAt, gerr>>
    /\ UNCHANGED <<libVars, callVars, writerVars, pipeVars, transVars>>

-----------------------------------------------------------------------------
(* Specifications.  Spec runs one call without files against a server that  *)
(* can answer with any response, under a context that can become done.      *)
(* SpecUpload runs one call with files, with the multipart writer and the   *)
(* transport reading the piped body; its context stays live: what a         *)
(* cancellation does to the pipe is that the transport closes the body      *)
(* early, which transport_CloseBody does at any point of the round trip.    *)

Methods == {"POST", "invalid"}
Payloads == {"nil", "ok", "bad"}

\* The Calls that endpoint wrappers build, by their Result field: "nil" where
\* the wrapper sets none, "typed" for a pointer to a result struct, "raw"
\* for a **http.Response.
WrapperCalls ==
    { [wrapper |-> "EnvelopeMove", Result |-> "nil"],
      [wrapper |-> "Void", Result |-> "nil"],
      [wrapper |-> "AccountCustomFields", Result |-> "typed"],
      [wrapper |-> "EnvelopeCreate", Result |-> "typed"],
      [wrapper |-> "EnvelopeDocument", Result |-> "raw"] }

\* the executors and, for each, the result slots and clients it is run with
Configs ==
    { [api |-> "Do", result |-> w.Result, client |-> "default"] : w \in WrapperCalls }
    \cup { [api |-> "do", result |-> "typed", client |-> c] : c \in {"default", "transport"} }
    \cup { [api |-> "doPdf", result |-> "writer", client |-> c] : c \in {"default", "transport"} }

UploadConfigs == { c \in Configs : c.api # "doPdf" /\ c.result = "typed" }

\* the non-empty file lists of a call
FileLists ==
    UNION { { [k \in 1..n |-> UploadFile(k, cl[k])] : cl \in [1..n -> BOOLEAN] } :
            n \in 1..MaxFiles }

InitCall(cfgs, fls, srv) ==
    /\ \E c \in cfgs : api = c.api /\ result = c.result /\ client = c.client
    /\ method \in Methods
    /\ payload \in Payloads
    /\ files \in fls
    /\ server = srv
    /\ epc = "start" /\ req = NoRequest /\ ret = NoError /\ slot = "unwritten"
    /\ wpc = "idle" /\ widx = 1 /\ fcnt = 0 /\ werr = "nil"
    /\ fpos = [k \in 1..Len(files) |-> 0]
    /\ feof = [k \in 1..Len(files) |-> FALSE]
    /\ closeCnt = [k \in 1..Len(files) |-> 0]
    /\ pending = <<>> /\ prErr = "none" /\ pwErr = "none"
    /\ rcvd = <<>> /\ robs = "reading" /\ bodyClosed = FALSE
    /\ tpc = "idle" /\ tout = NoOutcome /\ ndispatch = 0 /\ cancelReq = FALSE
    /\ resRead = FALSE /\ resClosed = 0
    /\ ctxDone = FALSE /\ ctxAt = "never" /\ gpc = "idle" /\ gerr = NoError
    /\ fn = "none" /\ arg = <<>> /\ val = <<>> /\ calls = 0

Init == InitCall(Configs, {<<>>}, "any")

InitUpload == InitCall(UploadConfigs, FileLists, "upload")

Next ==
    \/ Do_Body
    \/ Do_NewRequest
    \/ Do_ctxhttpDo
    \/ Do_TransportError
    \/ Do_Response
    \/ do_Body
    \/ do_NewRequest
    \/ do_Spawn
    \/ do_TaskClientDo
    \/ do_TaskResult
    \/ do_SelectDone
    \/ do_SelectResult
    \/ do_TaskClose
    \/ doPdf_Body
    \/ doPdf_NewRequest
    \/ doPdf_Spawn
    \/ doPdf_TaskClientDo
    \/ doPdf_TaskResult
    \/ doPdf_SelectDone
    \/ doPdf_SelectResult
    \/ transport_Respond
    \/ transport_Fail
    \/ ctx_Done

NextUpload ==
    \/ Do_Body
    \/ Do_NewRequest
    \/ Do_ctxhttpDo
    \/ Do_TransportError
    \/ Do_Response
    \/ do_Body
    \/ do_NewRequest
    \/ do_Spawn
    \/ do_TaskClientDo
    \/ do_TaskResult
    \/ do_SelectResult
    \/ do_TaskClose
    \/ multiBody_PayloadPart
    \/ multiBody_PayloadPartDone
    \/ multiBody_Encode
    \/ multiBody_EncodeDone
    \/ multiBody_FilePart
    \/ multiBody_FilePartDone
    \/ multiBody_Copy
    \/ multiBody_CopyDone
    \/ multiBody_Defer
    \/ multiBody_MpwClose
    \/ multiBody_MpwCloseDone
    \/ multiBody_PwClose
    \/ legacyMultiBody_PayloadPart
    \/ legacyMultiBody_PayloadPartDone
    \/ legacyMultiBody_Encode
    \/ legacyMultiBody_EncodeDone
    \/ legacyMultiBody_FilePart
    \/ legacyMultiBody_FilePartDone
    \/ legacyMultiBody_Copy
    \/ legacyMultiBody_CopyDone
    \/ legacyMultiBody_Defer
    \/ legacyMultiBody_MpwClose
    \/ legacyMultiBody_MpwCloseDone
    \/ legacyMultiBody_PwClose
    \/ transport_ReadBody
    \/ transport_BodyEnd
    \/ transport_CloseBody
    \/ transport_Respond
    \/ transport_Fail

Spec == Init /\ [][Next]_vars

SpecUpload == InitUpload /\ [][NextUpload]_vars

\* SpecRequest runs the executors up to the point where the request is
\* complete, for calls with and without files: the body, the Content-Type
\* and the Accept header are fixed by then, and neither the writer goroutine
\* nor the transport touches them.
InitRequest ==
    \/ InitCall({ c \in Configs : c.api # "doPdf" }, FileLists \cup {<<>>}, "upload")
    \/ InitCall({ c \in Configs : c.api = "doPdf" }, {<<>>}, "upload")

NextRequest ==
    \/ Do_Body
    \/ Do_NewRequest
    \/ do_Body
    \/ do_NewRequest
    \/ doPdf_Body
    \/ doPdf_NewRequest

SpecRequest == InitRequest /\ [][NextRequest]_vars

\* Fairness: every goroutine that can take a step eventually takes one, and
\* the transport eventually finishes the round trip and closes the body.
WriterNext ==
    \/ multiBody_PayloadPart \/ multiBody_PayloadPartDone
    \/ multiBody_Encode \/ multiBody_EncodeDone
    \/ multiBody_FilePart \/ multiBody_FilePartDone
    \/ multiBody_Copy \/ multiBody_CopyDone
    \/ multiBody_Defer \/ multiBody_MpwClose
    \/ multiBody_MpwCloseDone \/ multiBody_PwClose
    \/ legacyMultiBody_PayloadPart \/ legacyMultiBody_PayloadPartDone
    \/ legacyMultiBody_Encode \/ legacyMultiBody_EncodeDone
    \/ legacyMultiBody_FilePart \/ legacyMultiBody_FilePartDone
    \/ legacyMultiBody_Copy \/ legacyMultiBody_CopyDone
    \/ legacyMultiBody_Defer \/ legacyMultiBody_MpwClose
    \/ legacyMultiBody_MpwCloseDone \/ legacyMultiBody_PwClose

ExecutorNext ==
    \/ Do_Body \/ Do_NewRequest \/ Do_ctxhttpDo \/ Do_TransportError \/ Do_Response
    \/ do_Body \/ do_NewRequest \/ do_Spawn \/ do_SelectResult

TaskNext == do_TaskClientDo \/ do_TaskResult \/ do_TaskClose

FairSpecUpload ==
    /\ SpecUpload
    /\ WF_vars(WriterNext)
    /\ WF_vars(ExecutorNext)
    /\ WF_vars(TaskNext)
    /\ WF_vars(transport_ReadBody)
    /\ WF_vars(transport_BodyEnd)
    /\ WF_vars(transport_CloseBody)
    /\ WF_vars(transport_Respond \/ transport_Fail)

\* Fairness for Spec: the executor and the dispatch goroutine take the
\* steps they can take, and a round trip ends with a response or an error.
CallerNext ==
    \/ Do_Body \/ Do_NewRequest \/ Do_ctxhttpDo \/ Do_TransportError \/ Do_Response
    \/ do_Body \/ do_NewRequest \/ do_Spawn \/ do_SelectDone \/ do_SelectResult
    \/ doPdf_Body \/ doPdf_NewRequest \/ doPdf_Spawn
    \/ doPdf_SelectDone \/ doPdf_SelectResult

DispatchTaskNext ==
    \/ do_TaskClientDo \/ do_TaskResult \/ do_TaskClose
    \/ doPdf_TaskClientDo \/ doPdf_TaskResult

FairSpec ==
    /\ Spec
    /\ WF_vars(CallerNext)
    /\ WF_vars(DispatchTaskNext)
    /\ WF_vars(transport_Respond \/ transport_Fail)

-----------------------------------------------------------------------------
(* The library's functions on values: credentials, decoders, query strings  *)
(* and timestamps.  In SpecLib one of them is invoked on an input drawn     *)
(* from a bounded set; fn says which, arg holds the receiver and the        *)
(* arguments, val the value worked on, calls counts the invocations.        *)

\* Bounds of SpecLib.
MaxCalls == 3       \* invocations of one function on the same value

\* no call is under way: the state of the call variables in SpecLib
NoCall ==
    /\ api = "none" /\ method = "POST" /\ payload = "nil" /\ result = "nil"
    /\ client = "default" /\ files = <<>> /\ server = "any"
    /\ epc = "idle" /\ req = NoRequest /\ ret = NoError /\ slot = "unwritten"
    /\ wpc = "idle" /\ widx = 1 /\ fcnt = 0 /\ werr = "nil"
    /\ fpos = <<>> /\ feof = <<>> /\ closeCnt = <<>>
    /\ pending = <<>> /\ prErr = "none" /\ pwErr = "none"
    /\ rcvd = <<>> /\ robs = "reading" /\ bodyClosed = FALSE
    /\ tpc = "idle" /\ tout = NoOutcome /\ ndispatch = 0 /\ cancelReq = FALSE
    /\ resRead = FALSE /\ resClosed = 0
    /\ ctxDone = FALSE /\ ctxAt = "never" /\ gpc = "idle" /\ gerr = NoError

\* ---- Credential.Authorize and dsResolveURL

\* the authentication headers, each with the sequence of its values
HeaderNames == {"Authorization", "X-DocuSign-Act-As-User", "X-DocuSign-Authentication"}

\* a Header.Add in place of the Set: the value is appended
HeaderSet_Add(h, k, v) == [h EXCEPT ![k] = Append(@, v)]
\* req.Header.Set(k, v): v replaces every value of k
HeaderSet(h, k, v) == [h EXCEPT ![k] = <<v>>]

\* baseURL.Path
baseURLPath == "/restapi/v2"

\* strings.HasPrefix(ref.Path, "/"), a path being the sequence of the
\* pieces it was concatenated from
HasSlashPrefix(path) ==
    path # <<>> /\ path[1] \in {baseURLPath, "/login_information", "/oauth2/token"}

\* dsResolveURL(ref, host, accountID) on r = [URL, baseURLHost, ...]: it
\* stores host in the package-level baseURL and rewrites ref in place
dsResolveURL(r, host, accountID) ==
    [r EXCEPT !.baseURLHost = host,
              !.URL = [Scheme |-> "https",
                       Host |-> host,
                       Path |-> IF HasSlashPrefix(r.URL.Path)
                                THEN <<baseURLPath>> \o r.URL.Path
                                ELSE <<baseURLPath, "/accounts/", accountID, "/">>
                                       \o r.URL.Path]]

\* func (o OauthCredential) Authorize(req, onBehalfOf)
OauthCredential_Authorize(o, r, onBehalfOf) ==
    LET r1 == dsResolveURL(r, o.Host, o.AccountId)
        auth == IF o.TokenType = ""
                THEN <<"bearer", " ", o.AccessToken>>
                ELSE <<o.TokenType, " ", o.AccessToken>>
        h1 == HeaderSet(r1.Header, "Authorization", auth)
        h2 == IF onBehalfOf # ""
              THEN HeaderSet(h1, "X-DocuSign-Act-As-User", <<onBehalfOf>>)
              ELSE h1
    IN  [r1 EXCEPT !.Header = h2]

\* func (c Config) Authorize(req, onBehalfOf)
Config_Authorize(c, r, onBehalfOf) ==
    LET r1 == dsResolveURL(r, c.Host, c.AccountId)
        sendOnBehalfOf == IF onBehalfOf # ""
                          THEN <<"<SendOnBehalfOf>", onBehalfOf, "</SendOnBehalfOf>">>
                          ELSE <<>>
        authString == <<"<DocuSignCredentials>">> \o sendOnBehalfOf
                        \o <<"<Username>", c.UserName, "</Username><Password>",
                             c.Password, "</Password><IntegratorKey>",
                             c.IntegratorKey, "</IntegratorKey></DocuSignCredentials>">>
    IN  [r1 EXCEPT !.Header = HeaderSet(r1.Header, "X-DocuSign-Authentication", authString)]

\* s.credential.Authorize(req, s.onBehalfOf): the Credential interface
Authorize(cred, r, onBehalfOf) ==
    IF cred.kind = "OauthCredential"
    THEN OauthCredential_Authorize(cred, r, onBehalfOf)
    ELSE Config_Authorize(cred, r, onBehalfOf)

\* the credentials, users and requests Authorize is run on
Credentials ==
    { [kind |-> "OauthCredential", Host |-> h, AccountId |-> "acct",
       TokenType |-> tt, AccessToken |-> "token"] :
         h \in {"demo.docusign.net", "www.docusign.net"}, tt \in {"", "Bearer"} }
    \cup { [kind |-> "Config", Host |-> "demo.docusign.net", AccountId |-> "acct",
            UserName |-> "user", Password |-> "pw", IntegratorKey |-> "key"] }

OnBehalfOfs == {"", "other@example.com"}

AuthRequests ==
    { [Header |-> h,
       URL |-> [Scheme |-> "", Host |-> "", Path |-> p],
       baseURLHost |-> ""] :
         h \in [HeaderNames -> {<<>>, << <<"stale">> >>}],
         p \in { <<"envelopes">>, <<"/login_information">> } }

InitAuthorize ==
    /\ fn = "Authorize"
    /\ arg \in { [cred |-> c, onBehalfOf |-> u, req |-> r] :
                   c \in Credentials, u \in OnBehalfOfs, r \in AuthRequests }
    /\ val = arg.req
    /\ calls = 0

\* one more Authorize on the same request
Credential_Authorize ==
    /\ fn = "Authorize" /\ calls < MaxCalls
    /\ val' = Authorize(arg.cred, val, arg.onBehalfOf)
    /\ calls' = calls + 1
    /\ UNCHANGED <<fn, arg>>
    /\ UNCHANGED <<callVars, execVars, writerVars, pipeVars, transVars, taskVars>>

\* ---- DSBool.UnmarshalJSON

\* the byte 0x22
Quote == "\""

\* JSON texts as the sequence of their bytes: string literals and the
\* literals true, false, null and 1
JSONString(content) == <<Quote>> \o content \o <<Quote>>

DSBoolInputs ==
    { JSONString(<<"t", "r", "u", "e">>), JSONString(<<"T", "r", "u", "e">>),
      JSONString(<<"T", "R", "U", "E">>), JSONString(<<"f", "a", "l", "s", "e">>),
      JSONString(<<"F", "a", "l", "s", "e">>), JSONString(<<"t", "o", "t", "a", "l">>),
      JSONString(<<"T">>), JSONString(<<"1">>), JSONString(<<>>),
      <<"t", "r", "u", "e">>, <<"f", "a", "l", "s", "e">>,
      <<"n", "u", "l", "l">>, <<"1">> }

\* *d = DSBool(b[0] == 0x22 && (b[1] == 0x54 || b[1] == 0x74)); return nil
\* (an index past the end of b panics)
DSBool_UnmarshalJSON(b) ==
    IF Len(b) < 1 THEN [d |-> FALSE, err |-> "panic"]
    ELSE IF b[1] # Quote THEN [d |-> FALSE, err |-> "nil"]
    ELSE IF Len(b) < 2 THEN [d |-> FALSE, err |-> "panic"]
    ELSE [d |-> (b[2] = "T" \/ b[2] = "t"), err |-> "nil"]

InitDSBool ==
    /\ fn = "DSBool.UnmarshalJSON"
    /\ arg \in { [b |-> b] : b \in DSBoolInputs }
    /\ val \in { [d |-> d, err |-> "nil"] : d \in BOOLEAN }
    /\ calls = 0

\* json.Unmarshal reaches a DSBool field and calls its UnmarshalJSON
DSBool_Unmarshal ==
    /\ fn = "DSBool.UnmarshalJSON" /\ calls < MaxCalls
    /\ val' = DSBool_UnmarshalJSON(arg.b)
    /\ calls' = calls + 1
    /\ UNCHANGED <<fn, arg>>
    /\ UNCHANGED <<callVars, execVars, writerVars, pipeVars, transVars, taskVars>>

\* ---- ResponseError.UnmarshalJSON

\* the two shapes of error payload, {errorCode, message} of the REST api and
\* {error, error_description} of the OAuth endpoints, members in either order
ErrorPayload(shape, x, y, codeFirst) ==
    LET code == <<IF shape = "rest" THEN "errorCode" ELSE "error", x>>
        desc == <<IF shape = "rest" THEN "message" ELSE "error_description", y>>
    IN  ObjectBody(IF codeFirst THEN <<code, desc>> ELSE <<desc, code>>)

ErrorStrings == {"", "INVALID_REQUEST", "bad field"}

InitResponseError ==
    /\ fn = "ResponseError.UnmarshalJSON"
    /\ arg \in { [shape |-> sh, X |-> x, Y |-> y, codeFirst |-> o, Status |-> st] :
                   sh \in {"rest", "oauth"}, x \in ErrorStrings, y \in ErrorStrings,
                   o \in BOOLEAN, st \in {0, 400} }
    /\ val = ResponseError(arg.Status, "", "")
    /\ calls = 0

\* json.Unmarshal(b, re) / Decode(re) on an error payload
ResponseError_Unmarshal ==
    /\ fn = "ResponseError.UnmarshalJSON" /\ calls < MaxCalls
    /\ val' = DecodeResponseError(val, ErrorPayload(arg.shape, arg.X, arg.Y, arg.codeFirst))[1]
    /\ calls' = calls + 1
    /\ UNCHANGED <<fn, arg>>
    /\ UNCHANGED <<callVars, execVars, writerVars, pipeVars, transVars, taskVars>>

\* ---- query strings: createQueryString and the wrappers' url.Values

\* Bound: options passed to one wrapper
MaxOptions == 3

OptionNames == {"from_date", "status"}
OptionValues == {"sent", "a b", "a+b"}

\* the option lists of at most MaxOptions NmVal values
RECURSIVE OptionLists(_)
OptionLists(n) ==
    IF n = 0 THEN {<<>>}
    ELSE OptionLists(n - 1)
         \cup { Append(l, [Name |-> nm, Value |-> v]) :
                  l \in { l0 \in OptionLists(n - 1) : Len(l0) = n - 1 },
                  nm \in OptionNames, v \in OptionValues }

\* url.Values: for each name the values added so far, none if absent
NoValues == [n \in OptionNames |-> <<>>]

\* an assignment in place of the append: the last value wins
ValuesAdd_Overwrite(q, k, v) == [q EXCEPT ![k] = <<v>>]
\* q.Add(nv.Name, nv.Value); in createQueryString the same, written out:
\* q[nv.Name] = []string{nv.Value} if absent, append otherwise
ValuesAdd(q, k, v) == [q EXCEPT ![k] = Append(@, v)]

\* for _, nv := range args { q.Add(nv.Name, nv.Value) }
RECURSIVE AddAll(_, _)
AddAll(q, args) ==
    IF args = <<>> THEN q
    ELSE AddAll(ValuesAdd(q, Head(args).Name, Head(args).Value), Tail(args))

\* url.QueryEscape on the strings of the model
QueryEscape(str) ==
    CASE str = "a b" -> "a+b"
      [] str = "a+b" -> "a%2Bb"
      [] OTHER -> str

\* the keys of a url.Values in sorted order
SortedNames == <<"from_date", "status">>

\* q.Encode(): key=value for each value of each key, keys sorted, both
\* escaped; the result is the sequence of the items joined by "&"
RECURSIVE EncodeKeys(_, _)
EncodeKeys(q, keys) ==
    IF keys = <<>> THEN <<>>
    ELSE [i \in 1..Len(q[Head(keys)]) |->
            <<QueryEscape(Head(keys)), "=", QueryEscape(q[Head(keys)][i])>>]
         \o EncodeKeys(q, Tail(keys))

Encode(q) == EncodeKeys(q, SortedNames)

\* createQueryString(args): "?" + q.Encode(), or "" for no args
createQueryString(args) ==
    IF Len(args) > 0
    THEN [mark |-> "?", items |-> Encode(AddAll(NoValues, args))]
    ELSE [mark |-> "", items |-> <<>>]

\* a wrapper: RawQuery: q.Encode(); the URL has a "?" if RawQuery is not empty
WrapperQuery(args) ==
    LET raw == Encode(AddAll(NoValues, args))
    IN  [mark |-> IF raw # <<>> THEN "?" ELSE "", items |-> raw]

InitQuery ==
    /\ fn \in {"createQueryString", "FolderList"}
    /\ arg \in { [args |-> l] : l \in OptionLists(MaxOptions) }
    /\ val = [mark |-> "", items |-> <<>>]
    /\ calls = 0

\* createQueryString(args) is called
createQueryString_Call ==
    /\ fn = "createQueryString" /\ calls < MaxCalls
    /\ val' = createQueryString(arg.args)
    /\ calls' = calls + 1
    /\ UNCHANGED <<fn, arg>>
    /\ UNCHANGED <<callVars, execVars, writerVars, pipeVars, transVars, taskVars>>

\* a wrapper with options (FolderList, EnvelopeStatusChanges, ...) builds
\* the query of its Call
Wrapper_Query ==
    /\ fn = "FolderList" /\ calls < MaxCalls
    /\ val' = WrapperQuery(arg.args)
    /\ calls' = calls + 1
    /\ UNCHANGED <<fn, arg>>
    /\ UNCHANGED <<callVars, execVars, writerVars, pipeVars, transVars, taskVars>>

\* ---- DSTime.Time

\* DSTime values as the sequence of their pieces
DSTimeValues ==
    { <<"2015-06-30", "T", "14:01:02", ".123", "Z">>,
      <<"2015-06-30", "T", "14:01:02", "Z">>,
      <<"2015-06-30", "T", "14:01:02", ".123">>,
      <<"2015-06-30", "T", "14:01:02">>,
      <<"2015-06-30", "T", "14:01:02", "-07:00">>,
      <<"30/06/2015", "Z">>,
      <<"2015-06-30">>,
      <<"yesterday">>,
      <<>> }

\* the zero time.Time, and a parsed one
ZeroTime == [date |-> "0001-01-01", clock |-> "00:00:00", frac |-> "", zone |-> "UTC"]
TimeOf(date, clock, frac, zone) == [date |-> date, clock |-> clock, frac |-> frac, zone |-> zone]

IsDateTime(d) == Len(d) >= 3 /\ d[1] = "2015-06-30" /\ d[2] = "T" /\ d[3] = "14:01:02"

\* time.Parse("2006-01-02T15:04:05.999999999", d): <<time, error>>
ParseLocal(d) ==
    IF IsDateTime(d) /\ Len(d) = 3 THEN <<TimeOf(d[1], d[3], "", "UTC"), "nil">>
    ELSE IF IsDateTime(d) /\ Len(d) = 4 /\ d[4] = ".123"
         THEN <<TimeOf(d[1], d[3], d[4], "UTC"), "nil">>
         ELSE <<ZeroTime, "parsing time">>

\* time.Parse(time.RFC3339Nano, d): <<time, error>>
ParseRFC3339Nano(d) ==
    LET zones == {"Z", "-07:00"}
    IN  IF IsDateTime(d) /\ Len(d) = 4 /\ d[4] \in zones
        THEN <<TimeOf(d[1], d[3], "", d[4]), "nil">>
        ELSE IF IsDateTime(d) /\ Len(d) = 5 /\ d[4] = ".123" /\ d[5] \in zones
             THEN <<TimeOf(d[1], d[3], d[4], d[5]), "nil">>
             ELSE <<ZeroTime, "parsing time">>

\* strings.HasSuffix(string(d), "Z")
HasSuffixZ(d) == d # <<>> /\ d[Len(d)] = "Z"

\* func (d DSTime) Time() (time.Time, error) of part_000
DSTime_Time_WithError(d) ==
    LET p == IF HasSuffixZ(d) THEN ParseRFC3339Nano(d) ELSE ParseLocal(d)
    IN  [tm |-> p[1], failed |-> p[2] # "nil"]

\* func (d DSTime) Time() (tm time.Time) of part_001: tm, _ = time.Parse(...)
DSTime_Time(d) ==
    LET p == IF HasSuffixZ(d) THEN ParseRFC3339Nano(d) ELSE ParseLocal(d)
    IN  [tm |-> p[1], failed |-> FALSE]

InitDSTime ==
    /\ fn \in {"DSTime.Time", "DSTime.Time (time.Time, error)"}
    /\ arg \in { [d |-> d] : d \in DSTimeValues }
    /\ val = [tm |-> ZeroTime, failed |-> FALSE]
    /\ calls = 0

\* d.Time() is called
DSTime_Call ==
    /\ fn \in {"DSTime.Time", "DSTime.Time (time.Time, error)"} /\ calls < MaxCalls
    /\ val' = IF fn = "DSTime.Time" THEN DSTime_Time(arg.d) ELSE DSTime_Time_WithError(arg.d)
    /\ calls' = calls + 1
    /\ UNCHANGED <<fn, arg>>
    /\ UNCHANGED <<callVars, execVars, writerVars, pipeVars, transVars, taskVars>>

\* ---- two goroutines in Authorize at the same time

\* pairs of credentials bound to different hosts
CredentialPairs ==
    { <<c1, c2>> \in Credentials \X Credentials : c1.Host # c2.Host }

\* a request as http.NewRequest and Call.Do hand it to Authorize
FreshRequest(p) ==
    [Header |-> [h \in HeaderNames |-> <<>>],
     URL |-> [Scheme |-> "", Host |-> "", Path |-> p],
     baseURLHost |-> ""]

InitConcurrentAuthorize ==
    /\ fn = "Authorize (concurrent)"
    /\ arg \in { [creds |-> cp] : cp \in CredentialPairs }
    /\ val = [baseURLHost |-> "",
              pc |-> <<"store", "store">>,
              reqs |-> <<FreshRequest(<<"envelopes">>), FreshRequest(<<"folders">>)>>]
    /\ calls = 0

\* baseURL.Host = host, the first statement of dsResolveURL, in goroutine i
dsResolveURL_StoreHost(i) ==
    /\ fn = "Authorize (concurrent)" /\ val.pc[i] = "store"
    /\ val' = [val EXCEPT !.baseURLHost = arg.creds[i].Host, !.pc[i] = "load"]
    /\ UNCHANGED <<fn, arg, calls>>
    /\ UNCHANGED <<callVars, execVars, writerVars, pipeVars, transVars, taskVars>>

\* ref.Host = baseURL.Host and the rest of Authorize, in goroutine i: the
\* host is the one the package-level baseURL holds at this moment
dsResolveURL_LoadHost(i) ==
    /\ fn = "Authorize (concurrent)" /\ val.pc[i] = "load"
    /\ LET a == Authorize(arg.creds[i], val.reqs[i], "")
       IN  val' = [val EXCEPT !.reqs[i] = [a EXCEPT !.URL.Host = val.baseURLHost,
                                                    !.baseURLHost = val.baseURLHost],
                              !.pc[i] = "done"]
    /\ calls' = calls + 1
    /\ UNCHANGED <<fn, arg>>
    /\ UNCHANGED <<callVars, execVars, writerVars, pipeVars, transVars, taskVars>>

\* ---- contextSettings

\* liveUrl
liveUrl == "https://www.docusign.net/restapi/v2"

\* what ctx.Value(APISettings) holds: no *ContextSetting, or one whose
\* Client is set or nil
StoredSettings ==
    { [present |-> FALSE, Client |-> "nil", Endpoint |-> ""] }
    \cup { [present |-> TRUE, Client |-> c, Endpoint |-> e] :
             c \in {"nil", "custom"}, e \in {liveUrl, "https://demo.docusign.net/restapi/v2"} }

\* contextSettings(ctx): <<the ContextSetting stored in ctx after the call,
\* the one returned, whether the returned one is a new value>>;
\* ctxClient is what contextClient(ctx) returns
contextSettings(cs, ctxClient) ==
    IF cs.present
    THEN IF cs.Client = "nil"
         THEN <<cs, [cs EXCEPT !.Client = ctxClient], TRUE>>
         ELSE <<cs, cs, FALSE>>
    ELSE <<cs, [present |-> TRUE, Client |-> ctxClient, Endpoint |-> liveUrl], TRUE>>

InitContextSettings ==
    /\ fn = "contextSettings"
    /\ arg \in { [stored |-> cs, ctxClient |-> c] :
                   cs \in StoredSettings, c \in {"http.DefaultClient", "HTTPClient"} }
    /\ val = [stored |-> arg.stored, returned |-> arg.stored, fresh |-> FALSE]
    /\ calls = 0

\* settings := contextSettings(ctx)
contextSettings_Call ==
    /\ fn = "contextSettings" /\ calls < MaxCalls
    /\ LET r == contextSettings(val.stored, arg.ctxClient)
       IN  val' = [stored |-> r[1], returned |-> r[2], fresh |-> r[3]]
    /\ calls' = calls + 1
    /\ UNCHANGED <<fn, arg>>
    /\ UNCHANGED <<callVars, execVars, writerVars, pipeVars, transVars, taskVars>>

\* ---- the URL of a Call across executions

CallPaths == { <<"envelopes">>, <<"/login_information">> }

InitCallURL ==
    /\ fn = "Call.Do (URL)"
    /\ arg \in { [cred |-> c, onBehalfOf |-> "", url |-> [Scheme |-> "", Host |-> "", Path |-> p]] :
                   c \in Credentials, p \in CallPaths }
    /\ val = [URL |-> arg.url, baseURLHost |-> "", sent |-> <<>>]
    /\ calls = 0

\* req.URL = c.URL; s.credential.Authorize(req, s.onBehalfOf): the request
\* shares the *url.URL of the Call, which dsResolveURL rewrites in place;
\* the request then goes to that URL
Do_ResolveURL ==
    /\ fn = "Call.Do (URL)" /\ calls < MaxCalls
    /\ LET r == [Header |-> [h \in HeaderNames |-> <<>>],
                 URL |-> val.URL,
                 baseURLHost |-> val.baseURLHost]
           a == Authorize(arg.cred, r, arg.onBehalfOf)
       IN  val' = [URL |-> a.URL, baseURLHost |-> a.baseURLHost,
                   sent |-> Append(val.sent, a.URL)]
    /\ calls' = calls + 1
    /\ UNCHANGED <<fn, arg>>
    /\ UNCHANGED <<callVars, execVars, writerVars, pipeVars, transVars, taskVars>>

\* ---- Service.EnvelopeDocument

EnvelopeIds == {"env1", "env2"}
DocumentIds == {"1", "2"}

\* recipients.go, the wrapper on Call.Do:
\* URL: &url.URL{Path: fmt.Sprintf("envelopes/%s/documents", envId), ...}
EnvelopeDocument(envId, docId) ==
    [Method |-> "GET", Path |-> <<"envelopes/", envId, "/documents">>]

\* recipients.go, the wrapper on doPdf:
\* urlStr := fmt.Sprintf("envelopes/%s/documents/%s", envId, docId)
EnvelopeDocument_doPdf(envId, docId) ==
    [Method |-> "GET", Path |-> <<"envelopes/", envId, "/documents/", docId>>]

InitEnvelopeDocument ==
    /\ fn \in {"EnvelopeDocument", "EnvelopeDocument (doPdf)"}
    /\ arg \in { [envId |-> e, docId |-> d] : e \in EnvelopeIds, d \in DocumentIds }
    /\ val = [Method |-> "", Path |-> <<>>]
    /\ calls = 0

\* s.EnvelopeDocument(..., envId, docId) builds its request
EnvelopeDocument_Call ==
    /\ fn \in {"EnvelopeDocument", "EnvelopeDocument (doPdf)"} /\ calls < MaxCalls
    /\ val' = IF fn = "EnvelopeDocument"
              THEN EnvelopeDocument(arg.envId, arg.docId)
              ELSE EnvelopeDocument_doPdf(arg.envId, arg.docId)
    /\ calls' = calls + 1
    /\ UNCHANGED <<fn, arg>>
    /\ UNCHANGED <<callVars, execVars, writerVars, pipeVars, transVars, taskVars>>

\* ---- DSBool through encoding/json and back

\* type DSBool bool has no MarshalJSON and no field is tagged ",string":
\* json.Marshal writes a DSBool as the bare literal true or false
DSBool_Marshal(d) ==
    IF d THEN <<"t", "r", "u", "e">> ELSE <<"f", "a", "l", "s", "e">>

InitDSBoolRoundTrip ==
    /\ fn = "DSBool (Marshal, Unmarshal)"
    /\ arg \in { [d |-> d] : d \in BOOLEAN }
    /\ val = [json |-> <<>>, d |-> FALSE, err |-> "nil"]
    /\ calls = 0

\* json.Marshal of a struct with a DSBool field, then json.Unmarshal of the
\* text it produced
DSBool_RoundTrip ==
    /\ fn = "DSBool (Marshal, Unmarshal)" /\ calls < MaxCalls
    /\ LET b == DSBool_Marshal(arg.d)
           r == DSBool_UnmarshalJSON(b)
       IN  val' = [json |-> b, d |-> r.d, err |-> r.err]
    /\ calls' = calls + 1
    /\ UNCHANGED <<fn, arg>>
    /\ UNCHANGED <<callVars, execVars, writerVars, pipeVars, transVars, taskVars>>

\* ---- ResponseError.UnmarshalJSON on objects with both spellings

\* t := make(map[string]string); json.Unmarshal(b, &t): the members as a set
ErrorObjects ==
    { { <<"errorCode", x1>>, <<"error", x2>>,
        <<"message", y1>>, <<"error_description", y2>> } :
          x1 \in {"INVALID_REQUEST", "invalid_grant"},
          x2 \in {"INVALID_REQUEST", "invalid_grant"},
          y1 \in {"bad field", "expired"},
          y2 \in {"bad field", "expired"} }

\* for k, v := range t: the orders in which a range over the map may visit it
RangeOrders(t) ==
    { f \in [1..Cardinality(t) -> t] :
        \A i, j \in 1..Cardinality(t) : i # j => f[i] # f[j] }

InitResponseErrorRange ==
    /\ fn = "ResponseError.UnmarshalJSON (range t)"
    /\ arg \in { [t |-> t] : t \in ErrorObjects }
    /\ val = <<>>
    /\ calls = 0

\* one more json.Unmarshal(b, &re) of the same text into a new ResponseError
ResponseError_UnmarshalRange ==
    /\ fn = "ResponseError.UnmarshalJSON (range t)" /\ calls < MaxCalls
    /\ \E order \in RangeOrders(arg.t) :
         val' = Append(val, UnmarshalMembers(ResponseError(0, "", ""), order))
    /\ calls' = calls + 1
    /\ UNCHANGED <<fn, arg>>
    /\ UNCHANGED <<callVars, execVars, writerVars, pipeVars, transVars, taskVars>>

\* ---- Service.OnBehalfOf

\* func New(credential Credential, onBehalfOf string) *Service
New(credential, onBehalfOf) ==
    [credential |-> credential, onBehalfOf |-> onBehalfOf]

\* the method on a pointer receiver: the assignment reaches the caller's Service
OnBehalfOf_PointerReceiver(s, onBehalfOf) ==
    <<[s EXCEPT !.onBehalfOf = onBehalfOf], [s EXCEPT !.onBehalfOf = onBehalfOf]>>
\* func (s Service) OnBehalfOf(onBehalfOf string) *Service: s is a copy;
\* <<the caller's Service after the call, the Service returned>>
OnBehalfOf(s, onBehalfOf) ==
    <<s, [s EXCEPT !.onBehalfOf = onBehalfOf]>>

DelegateUsers == {"other@example.com", "third@example.com"}

InitService ==
    /\ fn = "Service.OnBehalfOf"
    /\ arg \in { [credential |-> c, onBehalfOf |-> o, u |-> u] :
                   c \in Credentials, o \in OnBehalfOfs, u \in DelegateUsers }
    /\ val = [orig |-> New(arg.credential, arg.onBehalfOf),
              derived |-> <<>>,
              used |-> <<>>]
    /\ calls = 0

\* sv2 := sv.OnBehalfOf(u)
Service_OnBehalfOf ==
    /\ fn = "Service.OnBehalfOf" /\ val.derived = <<>>
    /\ LET r == OnBehalfOf(val.orig, arg.u)
       IN  val' = [val EXCEPT !.orig = r[1], !.derived = <<r[2]>>]
    /\ UNCHANGED <<fn, arg, calls>>
    /\ UNCHANGED <<callVars, execVars, writerVars, pipeVars, transVars, taskVars>>

\* a call through one of the two Services: Call.Do runs
\* s.credential.Authorize(req, s.onBehalfOf) on its new request
Service_Do(via) ==
    /\ fn = "Service.OnBehalfOf" /\ calls < MaxCalls
    /\ via = "derived" => val.derived # <<>>
    /\ LET s == IF via = "orig" THEN val.orig ELSE val.derived[1]
           r == Authorize(s.credential, FreshRequest(<<"envelopes">>), s.onBehalfOf)
       IN  val' = [val EXCEPT !.used =
                     Append(@, [via |-> via, after |-> val.derived # <<>>,
                                Header |-> r.Header, Host |-> r.URL.Host])]
    /\ calls' = calls + 1
    /\ UNCHANGED <<fn, arg>>
    /\ UNCHANGED <<callVars, execVars, writerVars, pipeVars, transVars, taskVars>>

\* ---- SpecLib

InitLib ==
    /\ NoCall
    /\ \/ InitAuthorize
       \/ InitDSBool
       \/ InitResponseError
       \/ InitQuery
       \/ InitDSTime
       \/ InitConcurrentAuthorize
       \/ InitContextSettings
       \/ InitCallURL
       \/ InitEnvelopeDocument
       \/ InitDSBoolRoundTrip
       \/ InitResponseErrorRange
       \/ InitService

NextLib ==
    \/ Credential_Authorize
    \/ DSBool_Unmarshal
    \/ ResponseError_Unmarshal
    \/ createQueryString_Call
    \/ Wrapper_Query
    \/ DSTime_Call
    \/ \E i \in 1..2 : dsResolveURL_StoreHost(i)
    \/ \E i \in 1..2 : dsResolveURL_LoadHost(i)
    \/ contextSettings_Call
    \/ Do_ResolveURL
    \/ EnvelopeDocument_Call
    \/ DSBool_RoundTrip
    \/ ResponseError_UnmarshalRange
    \/ Service_OnBehalfOf
    \/ \E via \in {"orig", "derived"} : Service_Do(via)

SpecLib == InitLib /\ [][NextLib]_vars

-----------------------------------------------------------------------------
(* Properties.                                                              *)

\* the part header and the chunks the reader must see for files[k]
ExpectedFilePart(k) ==
    << <<"part", files[k].ContentType,
         <<"file; filename=", files[k].FileName, ";documentid=", files[k].Id>> >> >>
    \o [j \in 1..fpos[k] |-> <<"data", k, j>>]

RECURSIVE ExpectedFileParts(_)
ExpectedFileParts(k) ==
    IF k > NFiles THEN <<>> ELSE ExpectedFilePart(k) \o ExpectedFileParts(k + 1)

ExpectedStream ==
    << <<"part", "application/json", "form-data">>, <<"json", "payload">> >>
    \o ExpectedFileParts(1)
    \o << <<"final-boundary", "mpw.Boundary()">> >>

PartsSeen == Cardinality({i \in 1..Len(rcvd) : rcvd[i][1] = "part"})

\* C1: when the reader of the multipart stream of a call with a payload has
\* reached end-of-stream, every file was read to its end and the reader has
\* seen exactly N+1 parts: the JSON part, then for each file in slice order
\* its header (FileName and Id of that file) followed by exactly its chunks,
\* then the closing boundary.
C1_StreamIsPayloadThenFilesInOrder ==
    (robs = "EOF" /\ payload # "nil") =>
        /\ \A k \in 1..NFiles : feof[k]
        /\ PartsSeen = NFiles + 1
        /\ rcvd = ExpectedStream

C1_Witness ==
    /\ robs = "EOF" /\ payload = "ok"
    /\ NFiles >= 2
    /\ \A k \in 1..NFiles : fpos[k] >= 1

\* C2: no file is ever closed twice, and once the writer goroutine has
\* terminated each closable file has been closed exactly once (and a file
\* that is no io.Closer never).
C2_EachFileClosedExactlyOnce ==
    /\ \A k \in 1..NFiles : closeCnt[k] <= 1
    /\ wpc = "done" =>
         \A k \in 1..NFiles : closeCnt[k] = IF files[k].closer THEN 1 ELSE 0

\* the legacy writer failed reading the first of several closable files
C2_Witness ==
    /\ api = "do" /\ wpc = "done" /\ werr = "read"
    /\ NFiles >= 2 /\ widx = 1
    /\ \A k \in 1..NFiles : files[k].closer /\ closeCnt[k] = 1

AllFilesClosed == \A k \in 1..NFiles : files[k].closer => closeCnt[k] >= 1

\* C3: whenever the executor has returned from a call with files, every
\* closable file is eventually closed.
C3_FilesEventuallyClosed ==
    (epc = "returned" /\ NFiles > 0) ~> AllFilesClosed

\* C4: when Service.do / doPdf leaves its select while the context is done,
\* it returns the cancellation error.
C4_CancellationTakesPrecedence ==
    [][(api \in {"do", "doPdf"} /\ epc = "select" /\ ctxDone /\ epc' = "returned")
          => ret'.kind = "ctx"]_vars

\* C5: when Service.do / doPdf has returned the cancellation error, the
\* caller's result slot (the output writer of doPdf) is unwritten, then and
\* ever after.
C5_CanceledCallLeavesSlotUnwritten ==
    (api \in {"do", "doPdf"} /\ epc = "returned" /\ ret.kind = "ctx")
        => slot = "unwritten"

\* C6: when Service.do / doPdf returns the cancellation error for a context
\* that became done while the request was in flight, and the request is
\* still in flight, CancelRequest has been invoked for the request.
C6_InFlightRequestAborted ==
    [][(api \in {"do", "doPdf"} /\ epc = "select"
           /\ ctxAt = "active" /\ tpc = "active"
           /\ epc' = "returned" /\ ret'.kind = "ctx")
          => cancelReq']_vars

\* the executor (Call.Do) or its dispatch goroutine (do, doPdf) has
\* classified the response, and the error that came out of it
Classified ==
    /\ tout.kind = "response"
    /\ IF api = "Do" THEN epc = "returned" ELSE gpc \in {"send", "close", "done"}

OutcomeError == IF api = "Do" THEN ret ELSE gerr

\* C7: checkResponseStatus returns nil exactly for the status codes 200 and
\* 201; for any other code the outcome is a ResponseError carrying that code
\* and the result slot is unwritten.
C7_OnlyStatus200And201Succeed ==
    Classified =>
        /\ (checkResponseStatus(tout) = NoError) <=> (tout.StatusCode \in {200, 201})
        /\ tout.StatusCode \in {200, 201} => OutcomeError.kind # "ResponseError"
        /\ tout.StatusCode \notin {200, 201} =>
             /\ OutcomeError.kind = "ResponseError"
             /\ OutcomeError.Status = tout.StatusCode
             /\ slot = "unwritten"

C7_Witness ==
    /\ Classified /\ tout.StatusCode = 202
    /\ OutcomeError.kind = "ResponseError" /\ OutcomeError.Status = 202

\* C8: for a non-success response, a body that is the object
\* {errorCode:X, message:Y} yields ResponseError{Status, X, Y} and an empty
\* body yields ResponseError{Status, "", ""}, whatever length is declared.
C8_ErrorBodyDecodedWhenNonEmpty ==
    (Classified /\ tout.StatusCode \notin {200, 201}) =>
        /\ tout.Body = ObjectBody(<< <<"errorCode", "INVALID_REQUEST">>,
                                     <<"message", "bad field">> >>)
             => OutcomeError = ResponseError(tout.StatusCode, "INVALID_REQUEST", "bad field")
        /\ tout.Body.kind = "empty"
             => OutcomeError = ResponseError(tout.StatusCode, "", "")

\* C9: for a non-success response whose non-empty body is not decodable,
\* the outcome is a ResponseError with the status code and with the decode
\* error's message as Description.
C9_UndecodableBodyKeepsStatus ==
    (Classified /\ tout.StatusCode \notin {200, 201} /\ tout.Body.kind = "text") =>
        /\ OutcomeError.kind = "ResponseError"
        /\ OutcomeError.Status = tout.StatusCode
        /\ OutcomeError.Description = "invalid character"

\* C10: when Call.Do has returned after receiving a response: for a success
\* status and a raw result the response is in the caller's slot, its body
\* unread and unclosed; in every other case the body was closed exactly once.
C10_BodyHandedOverOrClosedOnce ==
    (api = "Do" /\ epc = "returned" /\ tout.kind = "response") =>
        IF tout.StatusCode \in {200, 201} /\ result = "raw"
        THEN slot = "response" /\ ~resRead /\ resClosed = 0
        ELSE resClosed = 1

C10_Witness ==
    /\ api = "Do" /\ epc = "returned" /\ tout.kind = "response"
    /\ result = "raw" /\ tout.StatusCode = 400 /\ resClosed = 1


\* C11: one invocation of an executor hands at most one request to the
\* transport, whatever the outcome: once it has returned (a transport error,
\* the context's error, a ResponseError or a decode error included) exactly
\* zero or one dispatch has happened, and none follows an error.
C11_AtMostOneDispatch ==
    /\ ndispatch <= 1
    /\ (epc = "returned" /\ ret.kind \in {"transport", "ctx", "ResponseError", "decode"})
           => ndispatch <= 1 /\ (api = "Do" => ndispatch = 1 /\ tpc = "done")

\* the executor returned a transport error after its one dispatch
C11_Witness ==
    /\ epc = "returned" /\ ret.kind = "transport"
    /\ ndispatch = 1 /\ tpc = "done"

\* number of chunks the writer has read from the files' Data so far
RECURSIVE ChunksReadFrom(_)
ChunksReadFrom(k) == IF k > NFiles THEN 0 ELSE fpos[k] + ChunksReadFrom(k + 1)

\* number of file chunks the reader of the pipe has consumed
ChunksReceived == Cardinality({i \in 1..Len(rcvd) : rcvd[i][1] = "data"})

\* C12: the writer is never ahead of the reader by more than the write in
\* progress: at most one chunk read from the files has not been consumed by
\* the reader, and that chunk is the data of the blocked pipe write unless
\* the pipe was closed under it.
C12_WriterNeverAheadOfReader ==
    LET unread == ChunksReadFrom(1) - ChunksReceived
    IN  /\ unread \in {0, 1}
        /\ unread = 1 => \/ pending # <<>> /\ pending[1] = "data"
                         \/ PipeDone

\* the writer of Call.Do is blocked writing a chunk while the reader has
\* already consumed the chunks before it
C12_Witness ==
    /\ api = "Do" /\ wpc = "copy_w" /\ ~PipeDone
    /\ pending # <<>> /\ pending[1] = "data"
    /\ ChunksReceived >= 2
    /\ ChunksReadFrom(1) = ChunksReceived + 1

\* C13: a request that an executor has completed carries, for a call with
\* files, the multipart stream as its body and Content-Type
\* multipart/form-data with the boundary of that stream, whether or not the
\* payload is nil; for a call without files and with a payload the JSON
\* encoding and Content-Type application/json; for a call with neither, no
\* body and no Content-Type.
C13_BodyAndContentTypeFollowFilesAndPayload ==
    req.built =>
        IF NFiles > 0
        THEN /\ req.body = "pipe"
             /\ req.contentType = "multipart/form-data"
             /\ req.boundary = FinalBoundary[2]
        ELSE IF payload # "nil"
             THEN req.body = "json" /\ req.contentType = "application/json"
             ELSE req.body = "none" /\ req.contentType = "" /\ req.boundary = ""

\* Call.Do completed the request of a call with files and a payload
C13_Witness ==
    /\ api = "Do" /\ req.built
    /\ NFiles > 0 /\ payload = "ok"
    /\ req.body = "pipe"

\* C14: every Call that Call.Do executes has a typed result pointer or a
\* raw-response pointer in its Result field, never neither.
C14_ExactlyOneResultPointer ==
    (api = "Do" /\ epc # "start") => result \in {"typed", "raw"}

\* C15: a completed request of Call.Do or Service.do for a call with a
\* result carries Accept: application/json exactly when the result is not a
\* raw response and the call has no files.
C15_AcceptJSONUnlessRawOrMultipart ==
    (req.built /\ api \in {"Do", "do"} /\ result # "nil") =>
        (req.accept = "application/json" <=> (result # "raw" /\ NFiles = 0))

\* the authentication headers a credential sets for an on-behalf-of value
HeadersSetBy(cred, onBehalfOf) ==
    IF cred.kind = "Config"
    THEN {"X-DocuSign-Authentication"}
    ELSE IF onBehalfOf # ""
         THEN {"Authorization", "X-DocuSign-Act-As-User"}
         ELSE {"Authorization"}

\* C16: after k >= 1 invocations of Authorize on the same request with the
\* same on-behalf-of value, every authentication header the credential sets
\* has exactly one value, and every authentication header has the values it
\* had after the first invocation; the credential itself is unchanged.
C16_AuthorizeIsIdempotentOnHeaders ==
    (fn = "Authorize" /\ calls >= 1) =>
        LET once == Authorize(arg.cred, arg.req, arg.onBehalfOf)
        IN  /\ \A h \in HeadersSetBy(arg.cred, arg.onBehalfOf) : Len(val.Header[h]) = 1
            /\ \A h \in HeaderNames : val.Header[h] = once.Header[h]

\* Authorize has run three times on a request that came with stale
\* authentication headers
C16_Witness ==
    /\ fn = "Authorize" /\ calls = 3
    /\ arg.onBehalfOf # ""
    /\ \A h \in HeaderNames : arg.req.Header[h] # <<>>

\* a JSON text that is a string literal, and the content of one
IsJSONString(b) == Len(b) >= 2 /\ b[1] = "\"" /\ b[Len(b)] = "\""
StringContent(b) == SubSeq(b, 2, Len(b) - 1)

\* lower-casing of the letters the inputs are written with
ToLowerChar(c) ==
    CASE c = "T" -> "t" [] c = "R" -> "r" [] c = "U" -> "u" [] c = "E" -> "e"
      [] c = "F" -> "f" [] OTHER -> c
ToLower(str) == [i \in 1..Len(str) |-> ToLowerChar(str[i])]

\* C17: DSBool.UnmarshalJSON returns a nil error for every input and sets the
\* value to true exactly when the input is a JSON string literal whose
\* content, lower-cased, is "true"; to false for every other input.
C17_OnlyTheLiteralTrueDecodesToTrue ==
    (fn = "DSBool.UnmarshalJSON" /\ calls >= 1) =>
        /\ val.err = "nil"
        /\ val.d = (/\ IsJSONString(arg.b)
                    /\ ToLower(StringContent(arg.b)) = <<"t", "r", "u", "e">>)

\* C18: decoding {errorCode: X, message: Y} and decoding
\* {error: X, error_description: Y} into a ResponseError both give Err = X
\* and Description = Y, hence the same value, and leave Status as it was.
C18_BothErrorShapesDecodeAlike ==
    (fn = "ResponseError.UnmarshalJSON" /\ calls >= 1) =>
        /\ val.Err = arg.X
        /\ val.Description = arg.Y
        /\ val.Status = arg.Status
        /\ \A o \in BOOLEAN :
             DecodeResponseError(ResponseError(arg.Status, "", ""),
                                 ErrorPayload("rest", arg.X, arg.Y, o))
               = DecodeResponseError(ResponseError(arg.Status, "", ""),
                                     ErrorPayload("oauth", arg.X, arg.Y, arg.codeFirst))

\* an OAuth-shaped payload was decoded into a ResponseError with a status
C18_Witness ==
    /\ fn = "ResponseError.UnmarshalJSON" /\ calls >= 1
    /\ arg.shape = "oauth" /\ arg.Status = 400
    /\ arg.X = "INVALID_REQUEST" /\ arg.Y = "bad field"
    /\ val.Err = "INVALID_REQUEST"

\* url.QueryUnescape on the escaped strings of the model
QueryUnescape(str) ==
    CASE str = "a+b" -> "a b"
      [] str = "a%2Bb" -> "a+b"
      [] OTHER -> str

\* the values a query string carries for name n, in their order
QueryValues(items, n) ==
    LET mine == SelectSeq(items, LAMBDA it : QueryUnescape(it[1]) = n)
    IN  [i \in 1..Len(mine) |-> QueryUnescape(mine[i][3])]

\* the values of the options named n, in their order
OptionValuesOf(args, n) ==
    LET mine == SelectSeq(args, LAMBDA nv : nv.Name = n)
    IN  [i \in 1..Len(mine) |-> mine[i].Value]

\* C19: the query string built from an option list carries, for each name,
\* exactly the values of the options of that name, once per option and in
\* the options' order (none is overwritten); an empty option list gives no
\* query string.
C19_QueryKeepsEveryOptionInOrder ==
    (fn \in {"createQueryString", "FolderList"} /\ calls >= 1) =>
        /\ \A n \in OptionNames : QueryValues(val.items, n) = OptionValuesOf(arg.args, n)
        /\ Len(val.items) = Len(arg.args)
        /\ (arg.args = <<>>) => (val.mark = "" /\ val.items = <<>>)
        /\ (arg.args # <<>>) => val.mark = "?"

\* three options were encoded, two of them with the same name and values
\* that need escaping
C19_Witness ==
    /\ fn = "FolderList" /\ calls >= 1
    /\ Len(arg.args) = 3
    /\ arg.args[1].Name = "status" /\ arg.args[1].Value = "a+b"
    /\ arg.args[2].Name = "from_date"
    /\ arg.args[3].Name = "status" /\ arg.args[3].Value = "a b"
    /\ Len(val.items) = 3

\* C20: DSTime.Time reports a failure to its caller exactly when the parser
\* selected by the value's last character (RFC3339-nano for a value ending
\* in Z, the local pattern otherwise) rejects the value, and otherwise
\* returns the time that parser produced.
C20_TimeReportsParseFailure ==
    (fn \in {"DSTime.Time", "DSTime.Time (time.Time, error)"} /\ calls >= 1) =>
        LET p == IF arg.d # <<>> /\ arg.d[Len(arg.d)] = "Z"
                 THEN ParseRFC3339Nano(arg.d)
                 ELSE ParseLocal(arg.d)
        IN  /\ val.failed = (p[2] # "nil")
            /\ ~val.failed => val.tm = p[1]

\* the error the writer closes the read end with: fmt.Errorf("batch:
\* multiPart Error: %v", err)
BatchError == "batch: multiPart Error"

\* C21: once a step of the writer has failed and the writer has run to its
\* end, the pipe's read end is closed, the reader has not seen a normal
\* end-of-stream, and a read of the reader made after the failure has
\* failed with the writer's error.
C21_ReaderSeesWriterError ==
    (wpc = "done" /\ werr # "nil") =>
        /\ prErr # "none"
        /\ robs # "EOF"
        /\ robs # "reading" => robs = BatchError

\* the writer is past the file-closing loop of its deferred function
FilesLoopPassed == wpc \in {"mpwclose", "mpwclose_w", "pwclose", "done"}

\* every closable file has been closed
EveryFileClosed == \A k \in 1..NFiles : files[k].closer => closeCnt[k] = 1

\* C22: the writer's teardown closes every file, then closes the multipart
\* writer (which writes the final boundary), then closes the pipe's write
\* end: the final boundary is written only after the files are closed, the
\* write end is closed only as the writer's last step, and when the reader
\* has seen a clean end-of-stream the final boundary was the last thing it
\* read and every file is closed.
C22_TeardownOrder ==
    /\ FilesLoopPassed => EveryFileClosed
    /\ (pending = FinalBoundary \/ wpc \in {"mpwclose_w", "pwclose"}) => EveryFileClosed
    /\ pwErr # "none" => wpc = "done"
    /\ robs = "EOF" =>
         /\ rcvd # <<>> /\ rcvd[Len(rcvd)] = FinalBoundary
         /\ EveryFileClosed

\* the reader of a call of Call.Do with two closable files saw the end
C22_Witness ==
    /\ api = "Do" /\ robs = "EOF"
    /\ NFiles >= 2 /\ \A k \in 1..NFiles : files[k].closer
    /\ rcvd[Len(rcvd)] = FinalBoundary

\* C23: when two goroutines authorize a request each, with credentials
\* bound to different hosts, every authorized request is addressed to the
\* host of the credential that authorized it and carries that credential's
\* authentication.
C23_RequestGoesToItsCredentialsHost ==
    fn = "Authorize (concurrent)" =>
        \A i \in 1..2 :
            val.pc[i] = "done" =>
                /\ val.reqs[i].URL.Host = arg.creds[i].Host
                /\ val.reqs[i].Header = Authorize(arg.creds[i], FreshRequest(<<>>), "").Header

\* C24: a call leaves shared configuration as it found it: contextSettings
\* leaves the ContextSetting stored in the context unchanged and returns a
\* new value when it has to fill in the client, and Authorize leaves the
\* package-level base URL equal to its value before the call.
C24_SharedConfigurationNeverMutated ==
    /\ (fn = "contextSettings" /\ calls >= 1) =>
           /\ val.stored = arg.stored
           /\ (arg.stored.present /\ arg.stored.Client = "nil") =>
                  val.fresh /\ val.returned.Client = arg.ctxClient
    /\ (fn = "Authorize" /\ calls >= 1) =>
           val.baseURLHost = arg.req.baseURLHost

\* C25: executing a Call leaves the Call's URL value as the caller built it,
\* and all executions of the same Call send their request to the same
\* absolute URL.
C25_CallURLUnchangedByDo ==
    (fn = "Call.Do (URL)" /\ calls >= 1) =>
        /\ val.URL = arg.url
        /\ \A i, j \in 1..Len(val.sent) : val.sent[i] = val.sent[j]

\* C26: every dispatch goroutine that Service.do or Service.doPdf has
\* spawned eventually terminates.
C26_DispatchTaskTerminates ==
    (gpc = "start") ~> (gpc = "done")

\* C27: EnvelopeDocument(envId, docId) issues a GET for the path
\* envelopes/<envId>/documents/<docId>, so that calls that differ in docId
\* only request different paths.
C27_EnvelopeDocumentPathHasDocId ==
    (fn \in {"EnvelopeDocument", "EnvelopeDocument (doPdf)"} /\ calls >= 1) =>
        /\ val.Method = "GET"
        /\ val.Path = <<"envelopes/", arg.envId, "/documents/", arg.docId>>
        /\ \A d \in DocumentIds :
             d # arg.docId =>
                 val.Path # (IF fn = "EnvelopeDocument"
                             THEN EnvelopeDocument(arg.envId, d)
                             ELSE EnvelopeDocument_doPdf(arg.envId, d)).Path

\* C28: a DSBool written by the standard JSON encoder and read back by
\* DSBool.UnmarshalJSON is the value that was written, true or false.
C28_DSBoolSurvivesRoundTrip ==
    (fn = "DSBool (Marshal, Unmarshal)" /\ calls >= 1) =>
        (val.err = "nil" /\ val.d = arg.d)

\* C29: decoding the same error object again gives the same Err and
\* Description, also when the object has both spellings of a field.
C29_ResponseErrorDecodingIsDeterministic ==
    fn = "ResponseError.UnmarshalJSON (range t)" =>
        \A i, j \in 1..Len(val) :
            val[i].Err = val[j].Err /\ val[i].Description = val[j].Description

\* the on-behalf-of value an authorized request carries for credential c
ActsAs(h, c) ==
    IF c.kind = "OauthCredential"
    THEN IF h["X-DocuSign-Act-As-User"] = <<>> THEN ""
         ELSE h["X-DocuSign-Act-As-User"][1][1]
    ELSE LET a == h["X-DocuSign-Authentication"][1]
         IN  IF a[2] = "<SendOnBehalfOf>" THEN a[3] ELSE ""

\* the headers Authorize of credential c sets when nobody is acted for
OwnHeaders(c) == Authorize(c, FreshRequest(<<"envelopes">>), "").Header

\* the part of the headers that identifies the credential
CredentialOf(h, c) ==
    IF c.kind = "OauthCredential"
    THEN h["Authorization"]
    ELSE LET a == h["X-DocuSign-Authentication"][1]
         IN  << SubSeq(a, Len(a) - 6, Len(a)) >>

\* C30: OnBehalfOf(u) returns a Service with the same credential and the
\* on-behalf-of value u and leaves its receiver as it was; calls through the
\* receiver keep using its own on-behalf-of value, calls through the new
\* Service use u, whatever the order of the calls.
C30_OnBehalfOfLeavesReceiverUnchanged ==
    fn = "Service.OnBehalfOf" =>
        /\ val.orig = New(arg.credential, arg.onBehalfOf)
        /\ val.derived # <<>> =>
               val.derived[1] = [credential |-> arg.credential, onBehalfOf |-> arg.u]
        /\ \A i \in 1..Len(val.used) :
             /\ val.used[i].Host = arg.credential.Host
             /\ CredentialOf(val.used[i].Header, arg.credential)
                    = CredentialOf(OwnHeaders(arg.credential), arg.credential)
             /\ ActsAs(val.used[i].Header, arg.credential)
                    = IF val.used[i].via = "orig" THEN arg.onBehalfOf ELSE arg.u

C30_Witness ==
    /\ fn = "Service.OnBehalfOf" /\ arg.u # arg.onBehalfOf
    /\ \E i, j \in 1..Len(val.used) :
         /\ i < j
         /\ val.used[i].via = "derived"
         /\ val.used[j].via = "orig" /\ val.used[j].after
====
